---- MODULE Spec2Model ----
(***************************************************************************)
(* Promo-code validation engine of orderfoodonline.                        *)
(*                                                                         *)
(* The module models the parallel validator (parallelValidator, its LRU    *)
(* cache and foundInFile) as a state machine of concurrent                 *)
(* ValidatePromoCode calls, each fanning out one scan goroutine per        *)
(* configured file.  Strings are sequences of one-character strings; the   *)
(* two-byte letter e-acute is written "e'".                                *)
(***************************************************************************)
EXTENDS Integers, Sequences, FiniteSets, TLC

(***************************************************************************)
(* Bounds of the model.                                                    *)
(***************************************************************************)
\* stand-in for the scanner's per-line cap (bufio maxLine, 1 MiB in the code)
MaxLineBytes == 8
\* length of the lines enumerated by the tokenizer specification
MaxScanLine == 4
\* number of calls (ValidatePromoCode or LoadCouponFiles) a caller makes one
\* after the other
MaxCalls == 2
\* Get/Add calls made on a cache exercised on its own
MaxOps == 4
\* largest capacity of a cache exercised on its own
MaxCap == 2
\* ValidatePromoCode / LoadCouponFiles calls made on a streaming validator
MaxStreamCalls == 3
\* ValidatePromoCode / LoadCouponFiles calls made on a preloading validator
MaxPreCalls == 3
\* CreateOrder / FindByID calls made on an order repository
MaxOrderCalls == 3
\* GetByID / Create / Update / Delete calls made on a product repository
MaxProductCalls == 3
\* PlaceOrder calls made on an order service
MaxPlaceCalls == 2
\* requests served behind the API-key middleware
MaxRequests == 2
\* stand-in for runtime.NumCPU()
NumCPU == 2

(***************************************************************************)
(* Characters and strings.                                                 *)
(***************************************************************************)
AsciiUpper == {"A", "B"}
AsciiLower == {"a", "b"}
AsciiDigit == {"1"}
\* a letter outside ASCII (two bytes in UTF-8)
UniLetter == {"e'"}
WhiteSpace == {" "}
Punct == {"-"}
Char == AsciiUpper \cup AsciiLower \cup AsciiDigit \cup UniLetter \cup WhiteSpace \cup Punct

\* unicode.IsLetter
IsLetter(ch) == ch \in AsciiUpper \cup AsciiLower \cup UniLetter
\* unicode.IsNumber
IsNumber(ch) == ch \in AsciiDigit
\* unicode.IsSpace, as used by strings.TrimSpace
IsSpace(ch) == ch \in WhiteSpace

\* number of bytes of one character in UTF-8
CharBytes(ch) == IF ch \in UniLetter THEN 2 ELSE 1

RECURSIVE ByteLen(_)
\* len(s) of Go: the length of the string in bytes
ByteLen(s) == IF s = <<>> THEN 0 ELSE CharBytes(Head(s)) + ByteLen(Tail(s))

RECURSIVE TrimLeft(_)
TrimLeft(s) == IF s # <<>> /\ IsSpace(Head(s)) THEN TrimLeft(Tail(s)) ELSE s

RECURSIVE TrimRight(_)
TrimRight(s) ==
  IF s # <<>> /\ IsSpace(s[Len(s)]) THEN TrimRight(SubSeq(s, 1, Len(s) - 1)) ELSE s

\* strings.TrimSpace
TrimSpace(s) == TrimRight(TrimLeft(s))

RECURSIVE isAlnum(_)
\* isAlnum: every character is an ASCII letter or digit (true of "")
isAlnum(s) ==
  IF s = <<>> THEN TRUE
  ELSE /\ Head(s) \in AsciiUpper \cup AsciiLower \cup AsciiDigit
       /\ isAlnum(Tail(s))

\* the separator function handed to strings.FieldsFunc
IsSeparator(ch) == ~IsLetter(ch) /\ ~IsNumber(ch)

RECURSIVE FieldsFrom(_, _, _)
\* strings.FieldsFunc: walk the line, cur is the field being collected
FieldsFrom(line, cur, acc) ==
  IF line = <<>>
  THEN IF cur = <<>> THEN acc ELSE Append(acc, cur)
  ELSE IF IsSeparator(Head(line))
       THEN FieldsFrom(Tail(line), <<>>, IF cur = <<>> THEN acc ELSE Append(acc, cur))
       ELSE FieldsFrom(Tail(line), Append(cur, Head(line)), acc)

FieldsFunc(line) == FieldsFrom(line, <<>>, <<>>)

\* variant of LineHasWord: the code is looked for anywhere in the line
\* (strings.Contains instead of the word comparison)
LineContains(line, code) ==
  \E i \in 1..Len(line) :
    i + Len(code) - 1 <= Len(line) /\ SubSeq(line, i, i + Len(code) - 1) = code

\* the inner loop of foundInFile: some word of the line is the code
LineHasWord(line, code) ==
  LET words == FieldsFunc(line)
  IN \E i \in 1..Len(words) : ByteLen(words[i]) = ByteLen(code) /\ words[i] = code

RECURSIVE ScanLines(_, _, _)
\* the sc.Scan() loop: lines come one by one until the stream ends or fails
\* (good lines are delivered before a read or decompression error) or a line
\* does not fit the buffer
ScanLines(lines, good, code) ==
  IF lines = <<>> \/ good = 0 THEN FALSE
  ELSE IF ByteLen(Head(lines)) >= MaxLineBytes THEN FALSE
  ELSE IF LineHasWord(Head(lines), code) THEN TRUE
  ELSE ScanLines(Tail(lines), good - 1, code)

\* variant of foundInFile: a gzip header that cannot be read is not noticed
\* and the bytes are scanned as they are
foundInFileRawGzip(src, code) ==
  IF ~src.exists THEN FALSE
  ELSE ScanLines(src.lines, src.good, code)

\* A source file: exists (os.Open succeeds), gz (the name ends in .gz),
\* header (a gzip header can be read), lines (its text), good (the number of
\* lines the stream delivers before it fails).
\* foundInFile: the hit it reports; every failure is a non-hit
foundInFile(src, code) ==
  IF ~src.exists THEN FALSE
  ELSE IF src.gz /\ ~src.header THEN FALSE
  ELSE ScanLines(src.lines, src.good, code)


(***************************************************************************)
(* The files on disk and the configurations.                               *)
(***************************************************************************)
RECURSIVE Filler(_)
\* a line of n letters
Filler(n) == IF n = 0 THEN <<>> ELSE <<"a">> \o Filler(n - 1)

\* the directory cfg.Dir: file name -> source file (a name not listed is a
\* file that does not exist)
Disk ==
  [ hit   |-> [exists |-> TRUE, gz |-> FALSE, header |-> FALSE, good |-> 2,
               lines |-> << <<"A", "B">>, <<"B", "1">> >>],
    mid   |-> [exists |-> TRUE, gz |-> TRUE, header |-> TRUE, good |-> 1,
               lines |-> << <<"a", "b", " ", "A", "B", "-", "a">> >>],
    sub   |-> [exists |-> TRUE, gz |-> FALSE, header |-> FALSE, good |-> 4,
               lines |-> << <<"a", "A", "B", "a">>, <<"e'", "A", "B">>,
                            Filler(MaxLineBytes), <<"A", "B">> >>],
    gone  |-> [exists |-> FALSE, gz |-> TRUE, header |-> FALSE, good |-> 0,
               lines |-> <<>>],
    badgz |-> [exists |-> TRUE, gz |-> TRUE, header |-> FALSE, good |-> 1,
               lines |-> << <<"A", "B">> >>],
    cut   |-> [exists |-> TRUE, gz |-> TRUE, header |-> TRUE, good |-> 1,
               lines |-> << <<"B", "1">>, <<"A", "B">> >>],
    long  |-> [exists |-> TRUE, gz |-> FALSE, header |-> FALSE, good |-> 4,
               lines |-> << <<"B", "1">>, <<"a", "b">>, <<"A", "-", "B">>, <<"b">> >>] ]

\* cfg.Files of the configurations explored
FileLists ==
  { <<>>,
    <<"hit">>,
    <<"sub", "hit">>,
    <<"hit", "sub">>,
    <<"mid", "hit">>,
    <<"hit", "mid", "gone">>,
    <<"gone", "cut", "badgz">> }

\* (MinLen, MaxLen) of the configurations explored
LenBounds == { <<2, 3>>, <<0, 2>>, <<3, 2>> }
HitBounds == { 0, 1, 2 }
CacheSizes == { -1, 0, 1 }

AllConfigs ==
  { [Files |-> f, MinLen |-> lb[1], MaxLen |-> lb[2], RequiredHits |-> k, CacheSize |-> cs] :
      f \in FileLists, lb \in LenBounds, k \in HitBounds, cs \in CacheSizes }

\* the configurations explored: every combination over at most one file,
\* those with sound length bounds over two, the valid ones over three
Configs ==
  { c \in AllConfigs :
      /\ Len(c.Files) > 1 => c.MinLen = 2
      /\ Len(c.Files) > 2 => c.RequiredHits >= 1 /\ c.CacheSize # 0 }

\* the codes callers pass to ValidatePromoCode
RawCodes ==
  { <<"A", "B">>, <<" ", "A", "B", " ">>, <<"B", "1">>,
    <<"A">>, <<"A", "-">>, <<"A", "B", "A", "B">> }

\* the goroutines of the host that call into the validator
Callers == {"g1", "g2"}

\* configurations explored with two callers racing
RaceConfigs ==
  { c \in Configs :
      /\ c.CacheSize # 0 /\ c.MinLen # 0
      /\ Len(c.Files) <= 2
      /\ Len(c.Files) = 2 =>
           c.Files = <<"mid", "hit">> /\ c.RequiredHits = 2 /\ c.CacheSize = 1 }

\* the codes two racing callers pass
RaceCodes == { <<"A", "B">>, <<"B", "1">> }

\* a workload: the configuration, how many calls each caller makes and the
\* codes passed; one caller making MaxCalls calls in a row, or two callers
\* making one call each
Workloads ==
  { [cfg |-> c, menu |-> RawCodes,
     quota |-> [p \in Callers |-> IF p = "g1" THEN MaxCalls ELSE 0]] : c \in Configs }
  \cup { [cfg |-> c, menu |-> RaceCodes, quota |-> [p \in Callers |-> 1]] :
           c \in RaceConfigs }

(***************************************************************************)
(* The LRU cache.                                                          *)
(***************************************************************************)
\* size used when cfg.CacheSize is 0
DefaultCacheSize == 50000

\* a nil *LRU
NilLRU == [nil |-> TRUE, max |-> 0, ll |-> <<>>, m |-> {}]

NewLRU(max) ==
  [nil |-> FALSE, max |-> IF max < 1 THEN 1 ELSE max, ll |-> <<>>, m |-> {}]

\* the list element the map holds for key k
ElemOf(ll, k) == CHOOSE i \in 1..Len(ll) : ll[i].k = k

\* variant of MoveToFront: the element stays where it is
MoveToFrontStay(ll, i) == ll

\* list.MoveToFront
MoveToFront(ll, i) == <<ll[i]>> \o SubSeq(ll, 1, i - 1) \o SubSeq(ll, i + 1, Len(ll))

\* variant of LRUGet: on a hit the flag ok is returned in place of the value
LRUGetFlag(c, k) ==
  IF k \in c.m
  THEN LET i == ElemOf(c.ll, k)
       IN [ok |-> TRUE, v |-> TRUE, lru |-> [c EXCEPT !.ll = MoveToFront(c.ll, i)]]
  ELSE [ok |-> FALSE, v |-> FALSE, lru |-> c]

\* LRU.Get: [ok, v, lru] (the whole critical section)
LRUGet(c, k) ==
  IF k \in c.m
  THEN LET i == ElemOf(c.ll, k)
       IN [ok |-> TRUE, v |-> c.ll[i].v, lru |-> [c EXCEPT !.ll = MoveToFront(c.ll, i)]]
  ELSE [ok |-> FALSE, v |-> FALSE, lru |-> c]

\* variant of LRUAdd: a new element is pushed on the list but the map is not
\* updated
LRUAddNoMap(c, k, v) ==
  IF k \in c.m
  THEN LET i == ElemOf(c.ll, k)
       IN [c EXCEPT !.ll = MoveToFront([c.ll EXCEPT ![i] = [k |-> k, v |-> v]], i)]
  ELSE LET ll1 == <<[k |-> k, v |-> v]>> \o c.ll
       IN IF Len(ll1) > c.max
          THEN [c EXCEPT !.ll = SubSeq(ll1, 1, Len(ll1) - 1)]
          ELSE [c EXCEPT !.ll = ll1]

\* LRU.Add: the cache after the whole critical section
LRUAdd(c, k, v) ==
  IF k \in c.m
  THEN LET i == ElemOf(c.ll, k)
       IN [c EXCEPT !.ll = MoveToFront([c.ll EXCEPT ![i] = [k |-> k, v |-> v]], i)]
  ELSE LET ll1 == <<[k |-> k, v |-> v]>> \o c.ll
           m1 == c.m \cup {k}
       IN IF Len(ll1) > c.max
          THEN [c EXCEPT !.ll = SubSeq(ll1, 1, Len(ll1) - 1),
                         !.m = m1 \ {ll1[Len(ll1)].k}]
          ELSE [c EXCEPT !.ll = ll1, !.m = m1]

\* LRU.Len
LRULen(c) == Len(c.ll)

\* variant of NewValidatorService: a cache is built for a negative size too
NewValidatorServiceCached(c) ==
  LET size == IF c.CacheSize = 0 THEN DefaultCacheSize ELSE c.CacheSize
  IN NewLRU(size)

\* NewValidatorService: the cache the validator is built with
NewValidatorService(c) ==
  LET size == IF c.CacheSize = 0 THEN DefaultCacheSize ELSE c.CacheSize
  IN IF size > 0 THEN NewLRU(size) ELSE NilLRU

\* variant of ConfigCheck: MinLen = 0 is let through (< in place of <=)
ConfigCheckLax(c) ==
  IF Len(c.Files) = 0 THEN "no files configured"
  ELSE IF c.MinLen < 0 \/ c.MaxLen < c.MinLen THEN "invalid length bounds"
  ELSE IF c.RequiredHits <= 0 THEN "RequiredHits must be >= 1"
  ELSE "nil"

\* variant of ConfigCheck: RequiredHits is tested first
ConfigCheckHitsFirst(c) ==
  IF c.RequiredHits <= 0 THEN "RequiredHits must be >= 1"
  ELSE IF Len(c.Files) = 0 THEN "no files configured"
  ELSE IF c.MinLen <= 0 \/ c.MaxLen < c.MinLen THEN "invalid length bounds"
  ELSE "nil"

\* variant of ConfigCheck: the files named are looked up on disk
ConfigCheckStat(c) ==
  IF Len(c.Files) = 0 THEN "no files configured"
  ELSE IF c.MinLen <= 0 \/ c.MaxLen < c.MinLen THEN "invalid length bounds"
  ELSE IF c.RequiredHits <= 0 THEN "RequiredHits must be >= 1"
  ELSE IF \E i \in 1..Len(c.Files) : ~Disk[c.Files[i]].exists THEN "missing source"
  ELSE "nil"

\* the body handed to once.Do in LoadCouponFiles: the value left in v.init
ConfigCheck(c) ==
  IF Len(c.Files) = 0 THEN "no files configured"
  ELSE IF c.MinLen <= 0 \/ c.MaxLen < c.MinLen THEN "invalid length bounds"
  ELSE IF c.RequiredHits <= 0 THEN "RequiredHits must be >= 1"
  ELSE "nil"

\* variant of Normalized: the code is used as passed
NormalizedAsIs(r) == r

\* code = strings.TrimSpace(code)
Normalized(r) == TrimSpace(r)

\* variant of Rejected: only the length is checked
RejectedByLength(c, code) ==
  ByteLen(code) < c.MinLen \/ ByteLen(code) > c.MaxLen

\* the structural pre-check of ValidatePromoCode on the trimmed code
Rejected(c, code) ==
  ByteLen(code) < c.MinLen \/ ByteLen(code) > c.MaxLen \/ ~isAlnum(code)

\* limit := runtime.NumCPU(); if limit < 1 { limit = 1 }
WorkerLimit == IF NumCPU < 1 THEN 1 ELSE NumCPU


(***************************************************************************)
(* State.                                                                  *)
(***************************************************************************)
VARIABLES
  cfg,       \* v.cfg
  once,      \* v.once: "new", "running" (the body is executing), "done"
  init,      \* v.init: "nil" or the error text
  lru,       \* v.lru
  pc,        \* per caller: where its call stands
  op,        \* per caller: "validate" or "load"
  raw,       \* per caller: the argument of ValidatePromoCode
  code,      \* per caller: the trimmed code
  found,     \* per caller: the hit counter of the call
  stop,      \* per caller: the stop flag of the call
  next,      \* per caller: index of the next file the dispatch loop handles
  sem,       \* per caller: number of tokens in the worker semaphore
  wg,        \* per caller: the WaitGroup counter
  task,      \* per caller: state of the scan goroutine of each file
  result,    \* per caller: the value the call returns
  handles,   \* per caller: files currently open
  scanned,   \* per caller: files the call has called os.Open on
  hits,      \* per caller: files whose scan reported a hit
  cacheOps,  \* per caller: Get/Add calls made by the call
  alone,     \* per caller: no other call was in flight since the call began
  last,      \* the last ValidatePromoCode call that returned, <<>> if none
  loadRets,  \* values LoadCouponFiles calls have returned to their callers
  initRuns,  \* number of executions of the once.Do body
  quota,     \* per caller: calls it has still to make
  menu,      \* the codes the callers pass
  scanPc,    \* tokenizer specification: "off", "ready", "done"
  scanSrc,   \* tokenizer specification: the file scanned
  scanCode,  \* tokenizer specification: the code looked for
  scanHit,   \* tokenizer specification: what foundInFile returned
  pos,       \* line-by-line scans: per caller and file, lines the scan has consumed
  late,      \* line-by-line scans: of these, lines consumed with the stop flag set
  ref,       \* cache specification: the reference cache, key -> [v, t]
  tick,      \* cache specification: number of Get/Add calls made
  got,       \* cache specification: the last Get or Add and what it returned
  sCfg,      \* streaming validator: v.cfg
  sOnce,     \* streaming validator: v.once
  sInit,     \* streaming validator: v.init
  sCache,    \* streaming validator: v.cache, code -> verdict
  gate,      \* streaming validator: number of tokens in v.sem
  sPc,       \* streaming validator, per caller: where its call stands
  sRaw,      \* streaming validator, per caller: the argument
  sCode,     \* streaming validator, per caller: the trimmed code
  sFound,    \* streaming validator, per caller: the local found
  sNext,     \* streaming validator, per caller: index of the next file to scan
  sResult,   \* streaming validator, per caller: the value the call returns
  sOpened,   \* streaming validator, per caller: files the call has opened
  sLeft,     \* streaming validator: calls still to be made
  mu,        \* c.mu of the cache: the caller that holds it, or "free"
  lPc,       \* per caller: where its Get or Add on the cache stands
  lOp,       \* per caller: the cache call it makes, [op, k, v]
  lRet,      \* per caller: what its Get returned, [ok, v]
  snap,      \* per caller: the cache as it was when the caller took c.mu
  stored,    \* the (key, value) pairs Add calls have written into the list
  pCfg,      \* preloading validator: s.cfg
  pOnce,     \* preloading validator: s.once, "new" or "done"
  pInitErr,  \* preloading validator: s.initErr, "nil" or the error text
  couponSets,\* preloading validator: s.couponSets, one set of words per file
  pLast,     \* preloading validator: the last call, [op, raw, err, ok]
  pLeft,     \* preloading validator: calls still to be made
  orders,    \* order repository: r.orders, ID -> order
  oLast,     \* order repository: the last call, its arguments and what it returned
  oBefore,   \* order repository: r.orders as the last call found it
  created,   \* order repository: ID -> the order of the first create that succeeded
  oLeft,     \* order repository: calls still to be made
  products,  \* product repository: r.products, ID -> product
  prLast,    \* product repository: the last call, [op, p, err, ret]
  prBefore,  \* product repository: r.products as the last call found it
  prLeft,    \* product repository: calls still to be made
  svcPc,     \* order service: where the PlaceOrder call stands
  req,       \* order service: the request of the call, [Items, CouponCode]
  asked,     \* order service: the codes the validator was asked about in the call
  svcRet,    \* order service: what the call returns, [order, err]
  accepted,  \* order service: the codes its validator accepts
  svcLeft,   \* order service: calls still to be made
  requiredAPIKey, \* API-key middleware: the key it was built with
  httpReq,   \* API-key middleware: the request being served, [Method, Header]
  mwPc,      \* API-key middleware: where the request stands
  resp,      \* API-key middleware: the response written so far
  reached,   \* API-key middleware: the protected handler has run for the request
  mwLeft     \* API-key middleware: requests still to be served

callVars == <<pc, op, raw, code, found, stop, next, sem, wg, task, result,
              handles, scanned, hits, cacheOps, alone>>
scanVars == <<scanPc, scanSrc, scanCode, scanHit>>
fineVars == <<pos, late>>
refVars == <<ref, tick, got>>
streamVars == <<sCfg, sOnce, sInit, sCache, gate, sPc, sRaw, sCode, sFound, sNext,
                sResult, sOpened, sLeft>>
lockVars == <<mu, lPc, lOp, lRet, snap, stored>>
preVars == <<pCfg, pOnce, pInitErr, couponSets, pLast, pLeft>>
ordVars == <<orders, oLast, oBefore, created, oLeft>>
prodVars == <<products, prLast, prBefore, prLeft>>
svcVars == <<svcPc, req, asked, svcRet, accepted, svcLeft>>
mwVars == <<requiredAPIKey, httpReq, mwPc, resp, reached, mwLeft>>
appVars == <<preVars, ordVars, prodVars, svcVars, mwVars>>
vars == <<cfg, once, init, lru, callVars, last, loadRets, initRuns, quota, menu, scanVars,
          fineVars, refVars, streamVars, lockVars, appVars>>

NFiles == Len(cfg.Files)

\* variant of StopAfter: the first hit already raises the stop flag
StopAfterFirst(n) == n >= 1

\* atomic.AddInt32(&found, 1) >= int32(v.cfg.RequiredHits), n the new count
StopAfter(n) == n >= cfg.RequiredHits

\* variant of Verdict: one hit is enough
VerdictAnyHit(n) == n >= 1

\* variant of Verdict: the count has to be exactly RequiredHits
VerdictExact(n) == n = cfg.RequiredHits

\* result := atomic.LoadInt32(&found) >= int32(v.cfg.RequiredHits)
Verdict(n) == n >= cfg.RequiredHits

\* variant of FileOf: every goroutine is handed the first file
FileOfFirst(i) == Disk[cfg.Files[1]]

\* the file the goroutine of the i-th loop iteration scans
FileOf(i) == Disk[cfg.Files[i]]

InitCfg(c) ==
  /\ cfg = c
  /\ once = "new"
  /\ init = "nil"
  /\ lru = NewValidatorService(c)
  /\ pc = [p \in Callers |-> "idle"]
  /\ op = [p \in Callers |-> "validate"]
  /\ raw = [p \in Callers |-> <<>>]
  /\ code = [p \in Callers |-> <<>>]
  /\ found = [p \in Callers |-> 0]
  /\ stop = [p \in Callers |-> FALSE]
  /\ next = [p \in Callers |-> 1]
  /\ sem = [p \in Callers |-> 0]
  /\ wg = [p \in Callers |-> 0]
  /\ task = [p \in Callers |-> [i \in 1..Len(c.Files) |-> "none"]]
  /\ result = [p \in Callers |-> FALSE]
  /\ handles = [p \in Callers |-> {}]
  /\ scanned = [p \in Callers |-> {}]
  /\ hits = [p \in Callers |-> {}]
  /\ cacheOps = [p \in Callers |-> 0]
  /\ alone = [p \in Callers |-> FALSE]
  /\ pos = [p \in Callers |-> [i \in 1..Len(c.Files) |-> 0]]
  /\ late = [p \in Callers |-> [i \in 1..Len(c.Files) |-> 0]]
  /\ last = <<>>
  /\ loadRets = {}
  /\ initRuns = 0

ScanOff ==
  /\ scanPc = "off"
  /\ scanSrc = Disk["gone"]
  /\ scanCode = <<>>
  /\ scanHit = FALSE

\* no cache is exercised on its own
RefOff ==
  /\ ref = <<>>
  /\ tick = 0
  /\ got = [op |-> "none", k |-> <<>>, ok |-> FALSE, v |-> FALSE, was |-> {}]

\* the callers of the streaming validator
StreamCallers == {"h1", "h2", "h3"}

\* no streaming validator is in use
StreamOff ==
  /\ sCfg = [Files |-> <<>>, MinLen |-> 0, MaxLen |-> 0, RequiredHits |-> 0,
             MaxConcurrentValidations |-> 0]
  /\ sOnce = "new"
  /\ sInit = "nil"
  /\ sCache = <<>>
  /\ gate = 0
  /\ sPc = [p \in StreamCallers |-> "idle"]
  /\ sRaw = [p \in StreamCallers |-> <<>>]
  /\ sCode = [p \in StreamCallers |-> <<>>]
  /\ sFound = [p \in StreamCallers |-> 0]
  /\ sNext = [p \in StreamCallers |-> 1]
  /\ sResult = [p \in StreamCallers |-> FALSE]
  /\ sOpened = [p \in StreamCallers |-> {}]
  /\ sLeft = 0

\* the preloading validator is not in use
PreOff ==
  /\ pCfg = [Files |-> <<>>, MinLen |-> 0, MaxLen |-> 0, RequiredHits |-> 0]
  /\ pOnce = "new"
  /\ pInitErr = [kind |-> "nil", path |-> ""]
  /\ couponSets = <<>>
  /\ pLast = [op |-> "none", raw |-> <<>>, err |-> [kind |-> "nil", path |-> ""],
              ok |-> FALSE]
  /\ pLeft = 0

\* the order repository is empty and not in use
OrdOff ==
  /\ orders = <<>>
  /\ oLast = [op |-> "none", order |-> [nil |-> TRUE, ID |-> "", Items |-> ""],
              id |-> "", ret |-> [nil |-> TRUE, ID |-> "", Items |-> ""],
              err |-> [text |-> "nil", is |-> "nil"]]
  /\ oBefore = <<>>
  /\ created = <<>>
  /\ oLeft = 0

\* the product repository is empty and not in use
ProdOff ==
  /\ products = <<>>
  /\ prLast = [op |-> "none", p |-> [ID |-> "", Name |-> ""], err |-> "nil",
               ret |-> [nil |-> TRUE, ID |-> "", Name |-> ""]]
  /\ prBefore = <<>>
  /\ prLeft = 0

\* the order service is not in use
SvcOff ==
  /\ svcPc = "idle"
  /\ req = [Items |-> <<>>, CouponCode |-> ""]
  /\ asked = <<>>
  /\ svcRet = [order |-> [nil |-> TRUE, ID |-> "", Items |-> ""],
               err |-> [type |-> "nil", msg |-> "", item |-> 0]]
  /\ accepted = {}
  /\ svcLeft = 0

\* no request is served
MwOff ==
  /\ requiredAPIKey = "apitest"
  /\ httpReq = [Method |-> "GET", Header |-> [set |-> FALSE, value |-> ""]]
  /\ mwPc = "idle"
  /\ resp = [status |-> 0, contentType |-> "", body |-> [Code |-> 0, Type |-> "", Message |-> ""]]
  /\ reached = FALSE
  /\ mwLeft = 0

\* the application around the validator is not in use
AppOff ==
  /\ PreOff
  /\ OrdOff
  /\ ProdOff
  /\ SvcOff
  /\ MwOff

\* no call on the cache is under way
LockOff ==
  /\ mu = "free"
  /\ lPc = [p \in Callers |-> "idle"]
  /\ lOp = [p \in Callers |-> [op |-> "none", k |-> <<>>, v |-> FALSE]]
  /\ lRet = [p \in Callers |-> [ok |-> FALSE, v |-> FALSE]]
  /\ snap = [p \in Callers |-> NilLRU]
  /\ stored = {}

Init ==
  /\ \E w \in Workloads : InitCfg(w.cfg) /\ quota = w.quota /\ menu = w.menu
  /\ ScanOff
  /\ RefOff
  /\ StreamOff
  /\ LockOff
  /\ AppOff

(***************************************************************************)
(* A caller enters ValidatePromoCode(r) or LoadCouponFiles().              *)
(***************************************************************************)
Begin(p, kind, r) ==
  /\ pc[p] = "idle"
  /\ quota[p] > 0
  /\ quota' = [quota EXCEPT ![p] = @ - 1]
  /\ pc' = [pc EXCEPT ![p] = "once"]
  /\ op' = [op EXCEPT ![p] = kind]
  /\ raw' = [raw EXCEPT ![p] = r]
  /\ alone' = [q \in Callers |-> q = p /\ \A o \in Callers : pc[o] = "idle"]
  /\ UNCHANGED <<cfg, once, init, lru, code, found, stop, next, sem, wg, task, result,
                 handles, scanned, hits, cacheOps, last, loadRets, initRuns, menu, scanVars,
                 fineVars, refVars, streamVars, lockVars, appVars>>

CallValidate(p) == \E r \in menu : Begin(p, "validate", r)

CallLoad(p) == Begin(p, "load", <<>>)

\* where a call continues once once.Do has returned
AfterOnce(p) == IF op[p] = "load" THEN "loadret" ELSE "check"

\* once.Do when the body has already run: nothing to do
OnceSkip(p) ==
  /\ pc[p] = "once"
  /\ once = "done"
  /\ pc' = [pc EXCEPT ![p] = AfterOnce(p)]
  /\ UNCHANGED <<cfg, once, init, lru, op, raw, code, found, stop, next, sem, wg, task,
                 result, handles, scanned, hits, cacheOps, alone, last, loadRets,
                 initRuns, quota, menu, scanVars,
                 fineVars, refVars, streamVars, lockVars, appVars>>

\* variant of OnceEnter: a caller that finds the body running runs it too
OnceEnterUnlocked(p) ==
  /\ pc[p] = "once"
  /\ once \in {"new", "running"}
  /\ once' = "running"
  /\ pc' = [pc EXCEPT ![p] = "body"]
  /\ UNCHANGED <<cfg, init, lru, op, raw, code, found, stop, next, sem, wg, task,
                 result, handles, scanned, hits, cacheOps, alone, last, loadRets,
                 initRuns, quota, menu, scanVars,
                 fineVars, refVars, streamVars, lockVars, appVars>>

\* once.Do for the first caller: it takes the body; callers arriving while the
\* body runs block (neither OnceSkip nor OnceEnter is enabled for them)
OnceEnter(p) ==
  /\ pc[p] = "once"
  /\ once = "new"
  /\ once' = "running"
  /\ pc' = [pc EXCEPT ![p] = "body"]
  /\ UNCHANGED <<cfg, init, lru, op, raw, code, found, stop, next, sem, wg, task,
                 result, handles, scanned, hits, cacheOps, alone, last, loadRets,
                 initRuns, quota, menu, scanVars,
                 fineVars, refVars, streamVars, lockVars, appVars>>

\* the body of once.Do: check the configuration, record the outcome in v.init
OnceBody(p) ==
  /\ pc[p] = "body"
  /\ init' = ConfigCheck(cfg)
  /\ once' = "done"
  /\ initRuns' = initRuns + 1
  /\ pc' = [pc EXCEPT ![p] = AfterOnce(p)]
  /\ UNCHANGED <<cfg, lru, op, raw, code, found, stop, next, sem, wg, task,
                 result, handles, scanned, hits, cacheOps, alone, last, loadRets,
                 quota, menu, scanVars,
                 fineVars, refVars, streamVars, lockVars, appVars>>

\* LoadCouponFiles: return v.init
LoadReturn(p) ==
  /\ pc[p] = "loadret"
  /\ loadRets' = loadRets \cup {init}
  /\ pc' = [pc EXCEPT ![p] = "idle"]
  /\ UNCHANGED <<cfg, once, init, lru, op, raw, code, found, stop, next, sem, wg, task,
                 result, handles, scanned, hits, cacheOps, alone, last,
                 initRuns, quota, menu, scanVars,
                 fineVars, refVars, streamVars, lockVars, appVars>>

\* ValidatePromoCode: the result of LoadCouponFiles is dropped; trim the code
\* and reject it when its length or characters are wrong
Check(p) ==
  /\ pc[p] = "check"
  /\ LET c == Normalized(raw[p])
     IN /\ code' = [code EXCEPT ![p] = c]
        /\ IF Rejected(cfg, c)
           THEN /\ result' = [result EXCEPT ![p] = FALSE]
                /\ pc' = [pc EXCEPT ![p] = "ret"]
           ELSE /\ result' = result
                /\ pc' = [pc EXCEPT ![p] = "get"]
  /\ UNCHANGED <<cfg, once, init, lru, op, raw, found, stop, next, sem, wg, task,
                 handles, scanned, hits, cacheOps, alone, last, loadRets,
                 initRuns, quota, menu, scanVars,
                 fineVars, refVars, streamVars, lockVars, appVars>>

\* the cache fast path
CacheGet(p) ==
  /\ pc[p] = "get"
  /\ IF lru.nil
     THEN /\ pc' = [pc EXCEPT ![p] = "loop"]
          /\ UNCHANGED <<lru, result, cacheOps>>
     ELSE LET g == LRUGet(lru, code[p])
          IN /\ lru' = g.lru
             /\ cacheOps' = [cacheOps EXCEPT ![p] = @ + 1]
             /\ IF g.ok
                THEN /\ result' = [result EXCEPT ![p] = g.v]
                     /\ pc' = [pc EXCEPT ![p] = "ret"]
                ELSE /\ result' = result
                     /\ pc' = [pc EXCEPT ![p] = "loop"]
  /\ UNCHANGED <<cfg, once, init, op, raw, code, found, stop, next, sem, wg, task,
                 handles, scanned, hits, alone, last, loadRets, initRuns, quota, menu, scanVars,
                 fineVars, refVars, streamVars, lockVars, appVars>>

\* head of the dispatch loop: leave it after the last file or when the stop
\* flag is seen, otherwise wg.Add(1) and go on to take a worker slot
LoopHead(p) ==
  /\ pc[p] = "loop"
  /\ IF next[p] > NFiles \/ stop[p]
     THEN /\ pc' = [pc EXCEPT ![p] = "wait"]
          /\ wg' = wg
     ELSE /\ pc' = [pc EXCEPT ![p] = "acquire"]
          /\ wg' = [wg EXCEPT ![p] = @ + 1]
  /\ UNCHANGED <<cfg, once, init, lru, op, raw, code, found, stop, next, sem, task,
                 result, handles, scanned, hits, cacheOps, alone, last, loadRets,
                 initRuns, quota, menu, scanVars,
                 fineVars, refVars, streamVars, lockVars, appVars>>

\* variant of Spawn: the goroutine is started without waiting for a slot
SpawnUnbounded(p) ==
  /\ pc[p] = "acquire"
  /\ sem' = [sem EXCEPT ![p] = @ + 1]
  /\ task' = [task EXCEPT ![p][next[p]] = "spawned"]
  /\ next' = [next EXCEPT ![p] = @ + 1]
  /\ pc' = [pc EXCEPT ![p] = "loop"]
  /\ UNCHANGED <<cfg, once, init, lru, op, raw, code, found, stop, wg,
                 result, handles, scanned, hits, cacheOps, alone, last, loadRets,
                 initRuns, quota, menu, scanVars,
                 fineVars, refVars, streamVars, lockVars, appVars>>

\* sem <- struct{}{} (blocks while the semaphore is full), then the go statement
Spawn(p) ==
  /\ pc[p] = "acquire"
  /\ sem[p] < WorkerLimit
  /\ sem' = [sem EXCEPT ![p] = @ + 1]
  /\ task' = [task EXCEPT ![p][next[p]] = "spawned"]
  /\ next' = [next EXCEPT ![p] = @ + 1]
  /\ pc' = [pc EXCEPT ![p] = "loop"]
  /\ UNCHANGED <<cfg, once, init, lru, op, raw, code, found, stop, wg,
                 result, handles, scanned, hits, cacheOps, alone, last, loadRets,
                 initRuns, quota, menu, scanVars,
                 fineVars, refVars, streamVars, lockVars, appVars>>

\* the goroutine starts: give up when the stop flag is set, else os.Open
TaskStart(p, i) ==
  /\ task[p][i] = "spawned"
  /\ IF stop[p]
     THEN /\ task' = [task EXCEPT ![p][i] = "release"]
          /\ UNCHANGED <<scanned, handles>>
     ELSE /\ task' = [task EXCEPT ![p][i] = "scan"]
          /\ scanned' = [scanned EXCEPT ![p] = @ \cup {i}]
          /\ handles' = [handles EXCEPT ![p] = IF FileOf(i).exists THEN @ \cup {i} ELSE @]
  /\ UNCHANGED <<cfg, once, init, lru, pc, op, raw, code, found, stop, next, sem, wg,
                 result, hits, cacheOps, alone, last, loadRets, initRuns, quota, menu, scanVars,
                 fineVars, refVars, streamVars, lockVars, appVars>>

\* variant of TaskScan: the file is closed only when the scan found nothing
TaskScanLeak(p, i) ==
  /\ task[p][i] = "scan"
  /\ IF foundInFile(FileOf(i), code[p])
     THEN /\ found' = [found EXCEPT ![p] = @ + 1]
          /\ hits' = [hits EXCEPT ![p] = @ \cup {i}]
          /\ task' = [task EXCEPT ![p][i] =
                        IF StopAfter(found[p] + 1) THEN "store" ELSE "release"]
          /\ UNCHANGED handles
     ELSE /\ task' = [task EXCEPT ![p][i] = "release"]
          /\ handles' = [handles EXCEPT ![p] = @ \ {i}]
          /\ UNCHANGED <<found, hits>>
  /\ UNCHANGED <<cfg, once, init, lru, pc, op, raw, code, stop, next, sem, wg,
                 result, scanned, cacheOps, alone, last, loadRets, initRuns, quota, menu, scanVars,
                 fineVars, refVars, streamVars, lockVars, appVars>>

\* foundInFile returns (the file is closed); a hit is counted with
\* atomic.AddInt32 and the K-th hit goes on to set the stop flag
TaskScan(p, i) ==
  /\ task[p][i] = "scan"
  /\ handles' = [handles EXCEPT ![p] = @ \ {i}]
  /\ IF foundInFile(FileOf(i), code[p])
     THEN /\ found' = [found EXCEPT ![p] = @ + 1]
          /\ hits' = [hits EXCEPT ![p] = @ \cup {i}]
          /\ task' = [task EXCEPT ![p][i] =
                        IF StopAfter(found[p] + 1) THEN "store" ELSE "release"]
     ELSE /\ task' = [task EXCEPT ![p][i] = "release"]
          /\ UNCHANGED <<found, hits>>
  /\ UNCHANGED <<cfg, once, init, lru, pc, op, raw, code, stop, next, sem, wg,
                 result, scanned, cacheOps, alone, last, loadRets, initRuns, quota, menu, scanVars,
                 fineVars, refVars, streamVars, lockVars, appVars>>

\* variant of TaskStore: the stop flag is one flag for all calls
TaskStoreShared(p, i) ==
  /\ task[p][i] = "store"
  /\ stop' = [q \in Callers |-> TRUE]
  /\ task' = [task EXCEPT ![p][i] = "release"]
  /\ UNCHANGED <<cfg, once, init, lru, pc, op, raw, code, found, next, sem, wg,
                 result, handles, scanned, hits, cacheOps, alone, last, loadRets,
                 initRuns, quota, menu, scanVars,
                 fineVars, refVars, streamVars, lockVars, appVars>>

\* stop.Store(true)
TaskStore(p, i) ==
  /\ task[p][i] = "store"
  /\ stop' = [stop EXCEPT ![p] = TRUE]
  /\ task' = [task EXCEPT ![p][i] = "release"]
  /\ UNCHANGED <<cfg, once, init, lru, pc, op, raw, code, found, next, sem, wg,
                 result, handles, scanned, hits, cacheOps, alone, last, loadRets,
                 initRuns, quota, menu, scanVars,
                 fineVars, refVars, streamVars, lockVars, appVars>>

\* deferred <-sem
TaskRelease(p, i) ==
  /\ task[p][i] = "release"
  /\ sem' = [sem EXCEPT ![p] = @ - 1]
  /\ task' = [task EXCEPT ![p][i] = "wgdone"]
  /\ UNCHANGED <<cfg, once, init, lru, pc, op, raw, code, found, stop, next, wg,
                 result, handles, scanned, hits, cacheOps, alone, last, loadRets,
                 initRuns, quota, menu, scanVars,
                 fineVars, refVars, streamVars, lockVars, appVars>>

\* deferred wg.Done()
TaskDone(p, i) ==
  /\ task[p][i] = "wgdone"
  /\ wg' = [wg EXCEPT ![p] = @ - 1]
  /\ task' = [task EXCEPT ![p][i] = "done"]
  /\ UNCHANGED <<cfg, once, init, lru, pc, op, raw, code, found, stop, next, sem,
                 result, handles, scanned, hits, cacheOps, alone, last, loadRets,
                 initRuns, quota, menu, scanVars,
                 fineVars, refVars, streamVars, lockVars, appVars>>

\* variant of Wait: the call goes on without waiting for its goroutines
WaitNoBarrier(p) ==
  /\ pc[p] = "wait"
  /\ result' = [result EXCEPT ![p] = Verdict(found[p])]
  /\ pc' = [pc EXCEPT ![p] = "add"]
  /\ UNCHANGED <<cfg, once, init, lru, op, raw, code, found, stop, next, sem, wg, task,
                 handles, scanned, hits, cacheOps, alone, last, loadRets,
                 initRuns, quota, menu, scanVars,
                 fineVars, refVars, streamVars, lockVars, appVars>>

\* wg.Wait() returns; result := found >= RequiredHits
Wait(p) ==
  /\ pc[p] = "wait"
  /\ wg[p] = 0
  /\ result' = [result EXCEPT ![p] = Verdict(found[p])]
  /\ pc' = [pc EXCEPT ![p] = "add"]
  /\ UNCHANGED <<cfg, once, init, lru, op, raw, code, found, stop, next, sem, wg, task,
                 handles, scanned, hits, cacheOps, alone, last, loadRets,
                 initRuns, quota, menu, scanVars,
                 fineVars, refVars, streamVars, lockVars, appVars>>

\* store the result in the cache when there is one
CacheAdd(p) ==
  /\ pc[p] = "add"
  /\ IF lru.nil
     THEN UNCHANGED <<lru, cacheOps>>
     ELSE /\ lru' = LRUAdd(lru, code[p], result[p])
          /\ cacheOps' = [cacheOps EXCEPT ![p] = @ + 1]
  /\ pc' = [pc EXCEPT ![p] = "ret"]
  /\ UNCHANGED <<cfg, once, init, op, raw, code, found, stop, next, sem, wg, task,
                 result, handles, scanned, hits, alone, last, loadRets,
                 initRuns, quota, menu, scanVars,
                 fineVars, refVars, streamVars, lockVars, appVars>>

\* ValidatePromoCode returns result; the locals of the call are gone
Return(p) ==
  /\ pc[p] = "ret"
  /\ last' = <<[raw |-> raw[p], result |-> result[p]]>>
  /\ pc' = [pc EXCEPT ![p] = "idle"]
  /\ raw' = [raw EXCEPT ![p] = <<>>]
  /\ code' = [code EXCEPT ![p] = <<>>]
  /\ found' = [found EXCEPT ![p] = 0]
  /\ stop' = [stop EXCEPT ![p] = FALSE]
  /\ next' = [next EXCEPT ![p] = 1]
  /\ task' = [task EXCEPT ![p] = [i \in 1..NFiles |-> "none"]]
  /\ result' = [result EXCEPT ![p] = FALSE]
  /\ scanned' = [scanned EXCEPT ![p] = {}]
  /\ hits' = [hits EXCEPT ![p] = {}]
  /\ cacheOps' = [cacheOps EXCEPT ![p] = 0]
  /\ alone' = [alone EXCEPT ![p] = FALSE]
  /\ pos' = [pos EXCEPT ![p] = [i \in 1..NFiles |-> 0]]
  /\ late' = [late EXCEPT ![p] = [i \in 1..NFiles |-> 0]]
  /\ UNCHANGED <<cfg, once, init, lru, op, sem, wg, handles, loadRets,
                 initRuns, quota, menu, scanVars, refVars, streamVars, lockVars, appVars>>

Next ==
  \/ \E p \in Callers : CallValidate(p)
  \/ \E p \in Callers : CallLoad(p)
  \/ \E p \in Callers : OnceSkip(p)
  \/ \E p \in Callers : OnceEnter(p)
  \/ \E p \in Callers : OnceBody(p)
  \/ \E p \in Callers : LoadReturn(p)
  \/ \E p \in Callers : Check(p)
  \/ \E p \in Callers : CacheGet(p)
  \/ \E p \in Callers : LoopHead(p)
  \/ \E p \in Callers : Spawn(p)
  \/ \E p \in Callers : \E i \in 1..NFiles : TaskStart(p, i)
  \/ \E p \in Callers : \E i \in 1..NFiles : TaskScan(p, i)
  \/ \E p \in Callers : \E i \in 1..NFiles : TaskStore(p, i)
  \/ \E p \in Callers : \E i \in 1..NFiles : TaskRelease(p, i)
  \/ \E p \in Callers : \E i \in 1..NFiles : TaskDone(p, i)
  \/ \E p \in Callers : Wait(p)
  \/ \E p \in Callers : CacheAdd(p)
  \/ \E p \in Callers : Return(p)

Spec == Init /\ [][Next]_vars


(***************************************************************************)
(* The scan goroutine step by step: the stop check, os.Open and each line  *)
(* read are steps of their own, so that what happens between them shows.   *)
(***************************************************************************)
\* the workloads explored step by step: one caller, valid configurations
FineWorkloads ==
  { [cfg |-> [Files |-> f, MinLen |-> 2, MaxLen |-> 3, RequiredHits |-> k, CacheSize |-> cs],
     menu |-> RaceCodes,
     quota |-> [p \in Callers |-> IF p = "g1" THEN MaxCalls ELSE 0]] :
      f \in { <<"hit", "long">>, <<"mid", "hit">>, <<"hit", "gone", "badgz">> },
      k \in {1, 2}, cs \in {-1, 1} }

InitFine ==
  /\ \E w \in FineWorkloads : InitCfg(w.cfg) /\ quota = w.quota /\ menu = w.menu
  /\ ScanOff
  /\ RefOff
  /\ StreamOff
  /\ LockOff
  /\ AppOff

\* variant of TaskCheck: the goroutine goes on to its scan whatever the flag
TaskCheckBlind(p, i) ==
  /\ task[p][i] = "spawned"
  /\ task' = [task EXCEPT ![p][i] = "open"]
  /\ UNCHANGED <<cfg, once, init, lru, pc, op, raw, code, found, stop, next, sem, wg,
                 result, handles, scanned, hits, cacheOps, alone, last, loadRets,
                 initRuns, quota, menu, scanVars, fineVars, refVars, streamVars, lockVars, appVars>>

\* the goroutine starts: if stop.Load() { return }
TaskCheck(p, i) ==
  /\ task[p][i] = "spawned"
  /\ task' = [task EXCEPT ![p][i] = IF stop[p] THEN "release" ELSE "open"]
  /\ UNCHANGED <<cfg, once, init, lru, pc, op, raw, code, found, stop, next, sem, wg,
                 result, handles, scanned, hits, cacheOps, alone, last, loadRets,
                 initRuns, quota, menu, scanVars, fineVars, refVars, streamVars, lockVars, appVars>>

\* foundInFile begins: os.Open, and gzip.NewReader for a .gz name; a file
\* that cannot be opened or has no gzip header ends the scan with no hit
TaskOpen(p, i) ==
  /\ task[p][i] = "open"
  /\ scanned' = [scanned EXCEPT ![p] = @ \cup {i}]
  /\ IF FileOf(i).exists /\ (FileOf(i).gz => FileOf(i).header)
     THEN /\ task' = [task EXCEPT ![p][i] = "scan"]
          /\ handles' = [handles EXCEPT ![p] = @ \cup {i}]
     ELSE /\ task' = [task EXCEPT ![p][i] = "release"]
          /\ handles' = handles
  /\ UNCHANGED <<cfg, once, init, lru, pc, op, raw, code, found, stop, next, sem, wg,
                 result, hits, cacheOps, alone, last, loadRets,
                 initRuns, quota, menu, scanVars, fineVars, refVars, streamVars, lockVars, appVars>>

\* one round of the sc.Scan() loop: the scan ends with no hit when the input
\* is at its end, fails or the line does not fit the buffer; otherwise the
\* line is consumed and its words are compared, a match ending the scan
\* with a hit that is counted with atomic.AddInt32
TaskReadLine(p, i) ==
  /\ task[p][i] = "scan"
  /\ LET src == FileOf(i)
         n == pos[p][i] + 1
     IN IF \/ n > Len(src.lines) \/ n > src.good
           \/ ByteLen(src.lines[n]) >= MaxLineBytes
        THEN /\ task' = [task EXCEPT ![p][i] = "release"]
             /\ handles' = [handles EXCEPT ![p] = @ \ {i}]
             /\ UNCHANGED <<found, hits, pos, late>>
        ELSE /\ pos' = [pos EXCEPT ![p][i] = n]
             /\ late' = [late EXCEPT ![p][i] = IF stop[p] THEN @ + 1 ELSE @]
             /\ IF LineHasWord(src.lines[n], code[p])
                THEN /\ found' = [found EXCEPT ![p] = @ + 1]
                     /\ hits' = [hits EXCEPT ![p] = @ \cup {i}]
                     /\ handles' = [handles EXCEPT ![p] = @ \ {i}]
                     /\ task' = [task EXCEPT ![p][i] =
                                   IF StopAfter(found[p] + 1) THEN "store" ELSE "release"]
                ELSE UNCHANGED <<found, hits, handles, task>>
  /\ UNCHANGED <<cfg, once, init, lru, pc, op, raw, code, stop, next, sem, wg,
                 result, scanned, cacheOps, alone, last, loadRets,
                 initRuns, quota, menu, scanVars, refVars, streamVars, lockVars, appVars>>

NextFine ==
  \/ \E p \in Callers : CallValidate(p)
  \/ \E p \in Callers : CallLoad(p)
  \/ \E p \in Callers : OnceSkip(p)
  \/ \E p \in Callers : OnceEnter(p)
  \/ \E p \in Callers : OnceBody(p)
  \/ \E p \in Callers : LoadReturn(p)
  \/ \E p \in Callers : Check(p)
  \/ \E p \in Callers : CacheGet(p)
  \/ \E p \in Callers : LoopHead(p)
  \/ \E p \in Callers : Spawn(p)
  \/ \E p \in Callers : \E i \in 1..NFiles : TaskCheck(p, i)
  \/ \E p \in Callers : \E i \in 1..NFiles : TaskOpen(p, i)
  \/ \E p \in Callers : \E i \in 1..NFiles : TaskReadLine(p, i)
  \/ \E p \in Callers : \E i \in 1..NFiles : TaskStore(p, i)
  \/ \E p \in Callers : \E i \in 1..NFiles : TaskRelease(p, i)
  \/ \E p \in Callers : \E i \in 1..NFiles : TaskDone(p, i)
  \/ \E p \in Callers : Wait(p)
  \/ \E p \in Callers : CacheAdd(p)
  \/ \E p \in Callers : Return(p)

SpecFine == InitFine /\ [][NextFine]_vars


(***************************************************************************)
(* The LRU on its own: Get and Add calls on the cache of a validator, next *)
(* to a reference cache that stamps each entry with the time of its last   *)
(* use.                                                                    *)
(***************************************************************************)
LruKeys == { <<"A">>, <<"B">>, <<"A", "B">> }

\* the entry of the reference cache used longest ago
Oldest(r) == CHOOSE k \in DOMAIN r : \A j \in DOMAIN r : r[k].t <= r[j].t

\* the reference cache after a get of k at time now
RefGet(r, k, now) == IF k \in DOMAIN r THEN [r EXCEPT ![k].t = now] ELSE r

\* the reference cache of capacity cap after a put of (k, v) at time now
RefAdd(r, k, v, now, cap) ==
  IF k \in DOMAIN r THEN [r EXCEPT ![k] = [v |-> v, t |-> now]]
  ELSE LET kept == IF Cardinality(DOMAIN r) >= cap THEN DOMAIN r \ {Oldest(r)}
                   ELSE DOMAIN r
       IN [x \in kept \cup {k} |-> IF x = k THEN [v |-> v, t |-> now] ELSE r[x]]

InitLRU ==
  /\ \E n \in 1..MaxCap :
       InitCfg([Files |-> <<>>, MinLen |-> 2, MaxLen |-> 3, RequiredHits |-> 1,
                CacheSize |-> n])
  /\ quota = [p \in Callers |-> 0]
  /\ menu = {}
  /\ ScanOff
  /\ RefOff
  /\ StreamOff
  /\ LockOff
  /\ AppOff

\* val, ok := lru.Get(k)
LGet(k) ==
  /\ tick < MaxOps
  /\ LET g == LRUGet(lru, k)
     IN /\ lru' = g.lru
        /\ got' = [op |-> "get", k |-> k, ok |-> g.ok, v |-> g.v, was |-> lru.m]
  /\ ref' = RefGet(ref, k, tick + 1)
  /\ tick' = tick + 1
  /\ UNCHANGED <<cfg, once, init, callVars, last, loadRets, initRuns, quota, menu,
                 scanVars, fineVars, streamVars, lockVars, appVars>>

\* lru.Add(k, v)
LAdd(k, v) ==
  /\ tick < MaxOps
  /\ lru' = LRUAdd(lru, k, v)
  /\ got' = [op |-> "add", k |-> k, ok |-> FALSE, v |-> v, was |-> lru.m]
  /\ ref' = RefAdd(ref, k, v, tick + 1, lru.max)
  /\ tick' = tick + 1
  /\ UNCHANGED <<cfg, once, init, callVars, last, loadRets, initRuns, quota, menu,
                 scanVars, fineVars, streamVars, lockVars, appVars>>

NextLRU ==
  \/ \E k \in LruKeys : LGet(k)
  \/ \E k \in LruKeys : \E v \in BOOLEAN : LAdd(k, v)

SpecLRU == InitLRU /\ [][NextLRU]_vars


(***************************************************************************)
(* Get and Add step by step: taking c.mu, the map lookup, each change of   *)
(* the list and of the map and giving c.mu back are steps of their own,    *)
(* and two goroutines call into the cache at the same time.                *)
(***************************************************************************)
MutexKeys == { <<"A">>, <<"B">> }

\* what the validator and the other specifications hold
LockRest == <<cfg, once, init, callVars, last, loadRets, initRuns, quota, menu,
              scanVars, fineVars, ref, got, streamVars, appVars>>

InitMutex ==
  /\ \E n \in 1..MaxCap :
       InitCfg([Files |-> <<>>, MinLen |-> 2, MaxLen |-> 3, RequiredHits |-> 1,
                CacheSize |-> n])
  /\ quota = [p \in Callers |-> 0]
  /\ menu = {}
  /\ ScanOff
  /\ RefOff
  /\ StreamOff
  /\ LockOff
  /\ AppOff

\* a goroutine calls lru.Get(k)
LCallGet(p, k) ==
  /\ lPc[p] = "idle"
  /\ tick < MaxOps
  /\ tick' = tick + 1
  /\ lOp' = [lOp EXCEPT ![p] = [op |-> "get", k |-> k, v |-> FALSE]]
  /\ lPc' = [lPc EXCEPT ![p] = "lock"]
  /\ UNCHANGED <<lru, mu, lRet, snap, stored, LockRest>>

\* a goroutine calls lru.Add(k, v)
LCallAdd(p, k, v) ==
  /\ lPc[p] = "idle"
  /\ tick < MaxOps
  /\ tick' = tick + 1
  /\ lOp' = [lOp EXCEPT ![p] = [op |-> "add", k |-> k, v |-> v]]
  /\ lPc' = [lPc EXCEPT ![p] = "lock"]
  /\ UNCHANGED <<lru, mu, lRet, snap, stored, LockRest>>

\* variant of LLock: c.mu is taken whoever holds it
LLockBarge(p) ==
  /\ lPc[p] = "lock"
  /\ mu' = p
  /\ snap' = [snap EXCEPT ![p] = lru]
  /\ lPc' = [lPc EXCEPT ![p] = "look"]
  /\ UNCHANGED <<lru, lOp, lRet, stored, tick, LockRest>>

\* c.mu.Lock(): blocks while another goroutine holds c.mu
LLock(p) ==
  /\ lPc[p] = "lock"
  /\ mu = "free"
  /\ mu' = p
  /\ snap' = [snap EXCEPT ![p] = lru]
  /\ lPc' = [lPc EXCEPT ![p] = "look"]
  /\ UNCHANGED <<lru, lOp, lRet, stored, tick, LockRest>>

\* e, ok := c.m[k]; a Get that finds nothing returns (false, false)
LLook(p) ==
  /\ lPc[p] = "look"
  /\ IF lOp[p].op = "get"
     THEN IF lOp[p].k \in lru.m
          THEN /\ lPc' = [lPc EXCEPT ![p] = "g_move"]
               /\ UNCHANGED lRet
          ELSE /\ lPc' = [lPc EXCEPT ![p] = "unlock"]
               /\ lRet' = [lRet EXCEPT ![p] = [ok |-> FALSE, v |-> FALSE]]
     ELSE /\ lPc' = [lPc EXCEPT ![p] =
                       IF lOp[p].k \in lru.m THEN "a_set" ELSE "a_push"]
          /\ UNCHANGED lRet
  /\ UNCHANGED <<lru, mu, lOp, snap, stored, tick, LockRest>>

\* Get on a hit: c.ll.MoveToFront(e); return e.Value.(kv).v, true
GMove(p) ==
  /\ lPc[p] = "g_move"
  /\ LET i == ElemOf(lru.ll, lOp[p].k)
     IN /\ lRet' = [lRet EXCEPT ![p] = [ok |-> TRUE, v |-> lru.ll[i].v]]
        /\ lru' = [lru EXCEPT !.ll = MoveToFront(lru.ll, i)]
  /\ lPc' = [lPc EXCEPT ![p] = "unlock"]
  /\ UNCHANGED <<mu, lOp, snap, stored, tick, LockRest>>

\* variant of ASet: a second element is pushed for a key that is present
ASetPush(p) ==
  /\ lPc[p] = "a_set"
  /\ lru' = [lru EXCEPT !.ll = <<[k |-> lOp[p].k, v |-> lOp[p].v]>> \o lru.ll]
  /\ stored' = stored \cup {<<lOp[p].k, lOp[p].v>>}
  /\ lPc' = [lPc EXCEPT ![p] = "a_move"]
  /\ UNCHANGED <<mu, lOp, lRet, snap, tick, LockRest>>

\* Add of a key that is present: e.Value = kv{k, v}
ASet(p) ==
  /\ lPc[p] = "a_set"
  /\ LET i == ElemOf(lru.ll, lOp[p].k)
     IN lru' = [lru EXCEPT !.ll[i] = [k |-> lOp[p].k, v |-> lOp[p].v]]
  /\ stored' = stored \cup {<<lOp[p].k, lOp[p].v>>}
  /\ lPc' = [lPc EXCEPT ![p] = "a_move"]
  /\ UNCHANGED <<mu, lOp, lRet, snap, tick, LockRest>>

\* Add of a key that is present: c.ll.MoveToFront(e); return
AMove(p) ==
  /\ lPc[p] = "a_move"
  /\ lru' = [lru EXCEPT !.ll = MoveToFront(lru.ll, ElemOf(lru.ll, lOp[p].k))]
  /\ lPc' = [lPc EXCEPT ![p] = "unlock"]
  /\ UNCHANGED <<mu, lOp, lRet, snap, stored, tick, LockRest>>

\* Add of a new key: e := c.ll.PushFront(kv{k, v})
APush(p) ==
  /\ lPc[p] = "a_push"
  /\ lru' = [lru EXCEPT !.ll = <<[k |-> lOp[p].k, v |-> lOp[p].v]>> \o lru.ll]
  /\ stored' = stored \cup {<<lOp[p].k, lOp[p].v>>}
  /\ lPc' = [lPc EXCEPT ![p] = "a_map"]
  /\ UNCHANGED <<mu, lOp, lRet, snap, tick, LockRest>>

\* variant of OverCapacity: the list is never found too long
OverCapacityNever(c) == FALSE

\* c.ll.Len() > c.max
OverCapacity(c) == Len(c.ll) > c.max

\* Add of a new key: c.m[k] = e, then the test of the length
AMap(p) ==
  /\ lPc[p] = "a_map"
  /\ lru' = [lru EXCEPT !.m = @ \cup {lOp[p].k}]
  /\ lPc' = [lPc EXCEPT ![p] = IF OverCapacity(lru) THEN "a_del" ELSE "unlock"]
  /\ UNCHANGED <<mu, lOp, lRet, snap, stored, tick, LockRest>>

\* eviction: last := c.ll.Back(); delete(c.m, ev.k)
ADel(p) ==
  /\ lPc[p] = "a_del"
  /\ lru' = [lru EXCEPT !.m = @ \ {lru.ll[Len(lru.ll)].k}]
  /\ lPc' = [lPc EXCEPT ![p] = "a_rem"]
  /\ UNCHANGED <<mu, lOp, lRet, snap, stored, tick, LockRest>>

\* eviction: c.ll.Remove(last)
ARem(p) ==
  /\ lPc[p] = "a_rem"
  /\ lru' = [lru EXCEPT !.ll = SubSeq(lru.ll, 1, Len(lru.ll) - 1)]
  /\ lPc' = [lPc EXCEPT ![p] = "unlock"]
  /\ UNCHANGED <<mu, lOp, lRet, snap, stored, tick, LockRest>>

\* variant of LUnlock: the call returns with c.mu still held
LUnlockKeep(p) ==
  /\ lPc[p] = "unlock"
  /\ lPc' = [lPc EXCEPT ![p] = "ret"]
  /\ UNCHANGED <<lru, mu, lOp, lRet, snap, stored, tick, LockRest>>

\* the deferred c.mu.Unlock()
LUnlock(p) ==
  /\ lPc[p] = "unlock"
  /\ mu' = "free"
  /\ lPc' = [lPc EXCEPT ![p] = "ret"]
  /\ UNCHANGED <<lru, lOp, lRet, snap, stored, tick, LockRest>>

\* the call on the cache returns to the goroutine that made it
LReturn(p) ==
  /\ lPc[p] = "ret"
  /\ lPc' = [lPc EXCEPT ![p] = "idle"]
  /\ lOp' = [lOp EXCEPT ![p] = [op |-> "none", k |-> <<>>, v |-> FALSE]]
  /\ lRet' = [lRet EXCEPT ![p] = [ok |-> FALSE, v |-> FALSE]]
  /\ snap' = [snap EXCEPT ![p] = NilLRU]
  /\ UNCHANGED <<lru, mu, stored, tick, LockRest>>

\* the steps of a call on the cache from c.mu.Lock() to c.mu.Unlock()
LruStep(p) ==
  \/ LLock(p)
  \/ LLook(p)
  \/ GMove(p)
  \/ ASet(p)
  \/ AMove(p)
  \/ APush(p)
  \/ AMap(p)
  \/ ADel(p)
  \/ ARem(p)
  \/ LUnlock(p)

NextMutex ==
  \/ \E p \in Callers : \E k \in MutexKeys : LCallGet(p, k)
  \/ \E p \in Callers : \E k \in MutexKeys : \E v \in BOOLEAN : LCallAdd(p, k, v)
  \/ \E p \in Callers : LruStep(p)
  \/ \E p \in Callers : LReturn(p)

SpecMutex == InitMutex /\ [][NextMutex]_vars


(***************************************************************************)
(* The validator with its cache calls step by step: ValidatePromoCode      *)
(* calls Get and Add, which run as the steps above while the other call    *)
(* goes on.                                                                *)
(***************************************************************************)
InitLock ==
  /\ \E c \in RaceConfigs : InitCfg(c)
  /\ quota = [p \in Callers |-> 1]
  /\ menu = RaceCodes
  /\ ScanOff
  /\ RefOff
  /\ StreamOff
  /\ LockOff
  /\ AppOff

\* what a cache call of ValidatePromoCode leaves alone
CallRest == <<cfg, once, init, lru, op, raw, code, found, stop, next, sem, wg, task,
              handles, scanned, hits, alone, last, loadRets, initRuns, quota, menu,
              scanVars, fineVars, refVars, streamVars, mu, stored, appVars>>

\* if v.lru != nil { val, ok := v.lru.Get(code) ...: the call is made
GetCall(p) ==
  /\ pc[p] = "get"
  /\ IF lru.nil
     THEN /\ pc' = [pc EXCEPT ![p] = "loop"]
          /\ UNCHANGED <<lPc, lOp, cacheOps>>
     ELSE /\ pc' = [pc EXCEPT ![p] = "getting"]
          /\ lOp' = [lOp EXCEPT ![p] = [op |-> "get", k |-> code[p], v |-> FALSE]]
          /\ lPc' = [lPc EXCEPT ![p] = "lock"]
          /\ cacheOps' = [cacheOps EXCEPT ![p] = @ + 1]
  /\ UNCHANGED <<result, lRet, snap, CallRest>>

\* Get has returned: a hit is the result of the call, a miss goes on to scan
GetDone(p) ==
  /\ pc[p] = "getting"
  /\ lPc[p] = "ret"
  /\ IF lRet[p].ok
     THEN /\ result' = [result EXCEPT ![p] = lRet[p].v]
          /\ pc' = [pc EXCEPT ![p] = "ret"]
     ELSE /\ pc' = [pc EXCEPT ![p] = "loop"]
          /\ UNCHANGED result
  /\ lPc' = [lPc EXCEPT ![p] = "idle"]
  /\ lOp' = [lOp EXCEPT ![p] = [op |-> "none", k |-> <<>>, v |-> FALSE]]
  /\ lRet' = [lRet EXCEPT ![p] = [ok |-> FALSE, v |-> FALSE]]
  /\ snap' = [snap EXCEPT ![p] = NilLRU]
  /\ UNCHANGED <<cacheOps, CallRest>>

\* if v.lru != nil { v.lru.Add(code, result) }: the call is made
AddCall(p) ==
  /\ pc[p] = "add"
  /\ IF lru.nil
     THEN /\ pc' = [pc EXCEPT ![p] = "ret"]
          /\ UNCHANGED <<lPc, lOp, cacheOps>>
     ELSE /\ pc' = [pc EXCEPT ![p] = "adding"]
          /\ lOp' = [lOp EXCEPT ![p] = [op |-> "add", k |-> code[p], v |-> result[p]]]
          /\ lPc' = [lPc EXCEPT ![p] = "lock"]
          /\ cacheOps' = [cacheOps EXCEPT ![p] = @ + 1]
  /\ UNCHANGED <<result, lRet, snap, CallRest>>

\* Add has returned
AddDone(p) ==
  /\ pc[p] = "adding"
  /\ lPc[p] = "ret"
  /\ pc' = [pc EXCEPT ![p] = "ret"]
  /\ lPc' = [lPc EXCEPT ![p] = "idle"]
  /\ lOp' = [lOp EXCEPT ![p] = [op |-> "none", k |-> <<>>, v |-> FALSE]]
  /\ lRet' = [lRet EXCEPT ![p] = [ok |-> FALSE, v |-> FALSE]]
  /\ snap' = [snap EXCEPT ![p] = NilLRU]
  /\ UNCHANGED <<result, cacheOps, CallRest>>

NextLock ==
  \/ \E p \in Callers : CallValidate(p)
  \/ \E p \in Callers : CallLoad(p)
  \/ \E p \in Callers : OnceSkip(p)
  \/ \E p \in Callers : OnceEnter(p)
  \/ \E p \in Callers : OnceBody(p)
  \/ \E p \in Callers : LoadReturn(p)
  \/ \E p \in Callers : Check(p)
  \/ \E p \in Callers : GetCall(p)
  \/ \E p \in Callers : LruStep(p)
  \/ \E p \in Callers : GetDone(p)
  \/ \E p \in Callers : LoopHead(p)
  \/ \E p \in Callers : Spawn(p)
  \/ \E p \in Callers : \E i \in 1..NFiles : TaskStart(p, i)
  \/ \E p \in Callers : \E i \in 1..NFiles : TaskScan(p, i)
  \/ \E p \in Callers : \E i \in 1..NFiles : TaskStore(p, i)
  \/ \E p \in Callers : \E i \in 1..NFiles : TaskRelease(p, i)
  \/ \E p \in Callers : \E i \in 1..NFiles : TaskDone(p, i)
  \/ \E p \in Callers : Wait(p)
  \/ \E p \in Callers : AddCall(p)
  \/ \E p \in Callers : AddDone(p)
  \/ \E p \in Callers : Return(p)

SpecLock == InitLock /\ [][NextLock]_vars


(***************************************************************************)
(* The streaming validator: an admission gate in front of each call, the   *)
(* files scanned one after the other by the caller itself, a sync.Map as   *)
(* cache.                                                                  *)
(***************************************************************************)
\* capacity of v.sem when cfg.MaxConcurrentValidations is not positive
DefaultMaxConcurrent == 2

\* NewValidatorService: the capacity of v.sem
GateCap(c) ==
  IF c.MaxConcurrentValidations <= 0 THEN DefaultMaxConcurrent
  ELSE c.MaxConcurrentValidations

\* the inner loop of the streaming foundInFile: some word of the line passes
\* the length and character checks and is the code
LineHasWordStream(line, tok, minLen, maxLen) ==
  LET words == FieldsFunc(line)
  IN \E i \in 1..Len(words) :
       /\ ByteLen(words[i]) = ByteLen(tok)
       /\ ByteLen(words[i]) >= minLen /\ ByteLen(words[i]) <= maxLen
       /\ isAlnum(words[i])
       /\ words[i] = tok

RECURSIVE ScanLinesStream(_, _, _, _, _)
\* the sc.Scan() loop of the streaming foundInFile
ScanLinesStream(lines, good, tok, minLen, maxLen) ==
  IF lines = <<>> \/ good = 0 THEN FALSE
  ELSE IF ByteLen(Head(lines)) >= MaxLineBytes THEN FALSE
  ELSE IF LineHasWordStream(Head(lines), tok, minLen, maxLen) THEN TRUE
  ELSE ScanLinesStream(Tail(lines), good - 1, tok, minLen, maxLen)

\* the streaming foundInFile(filename, code, minLen, maxLen)
foundInFileStream(src, tok, minLen, maxLen) ==
  IF ~src.exists THEN FALSE
  ELSE IF src.gz /\ ~src.header THEN FALSE
  ELSE ScanLinesStream(src.lines, src.good, tok, minLen, maxLen)

\* the configurations of the streaming validator explored
StreamConfigs ==
  { [Files |-> f, MinLen |-> 2, MaxLen |-> 3, RequiredHits |-> k,
     MaxConcurrentValidations |-> m] :
      f \in { <<"hit", "mid">>, <<"gone", "hit">> }, k \in {1, 2}, m \in {0, 1, 2} }

\* the codes passed to the streaming validator
StreamCodes == { <<"A", "B">>, <<"B", "1">>, <<"A", "-">> }

InitStream ==
  /\ InitCfg([Files |-> <<>>, MinLen |-> 2, MaxLen |-> 3, RequiredHits |-> 1,
              CacheSize |-> -1])
  /\ quota = [p \in Callers |-> 0]
  /\ menu = {}
  /\ ScanOff
  /\ RefOff
  /\ LockOff
  /\ AppOff
  /\ sCfg \in StreamConfigs
  /\ sOnce = "new"
  /\ sInit = "nil"
  /\ sCache = <<>>
  /\ gate = 0
  /\ sPc = [p \in StreamCallers |-> "idle"]
  /\ sRaw = [p \in StreamCallers |-> <<>>]
  /\ sCode = [p \in StreamCallers |-> <<>>]
  /\ sFound = [p \in StreamCallers |-> 0]
  /\ sNext = [p \in StreamCallers |-> 1]
  /\ sResult = [p \in StreamCallers |-> FALSE]
  /\ sOpened = [p \in StreamCallers |-> {}]
  /\ sLeft = MaxStreamCalls

\* what the other validator and the other specifications hold
StreamRest == <<cfg, once, init, lru, callVars, last, loadRets, initRuns, quota, menu,
                scanVars, fineVars, refVars, lockVars, appVars>>

\* a caller enters ValidatePromoCode(r) and comes to the gate
SCall(p, r) ==
  /\ sPc[p] = "idle"
  /\ sLeft > 0
  /\ sLeft' = sLeft - 1
  /\ sPc' = [sPc EXCEPT ![p] = "gate"]
  /\ sRaw' = [sRaw EXCEPT ![p] = r]
  /\ UNCHANGED <<sCfg, sOnce, sInit, sCache, gate, sCode, sFound, sNext, sResult, sOpened,
                 StreamRest>>

\* a caller enters LoadCouponFiles()
SCallLoad(p) ==
  /\ sPc[p] = "idle"
  /\ sLeft > 0
  /\ sLeft' = sLeft - 1
  /\ sPc' = [sPc EXCEPT ![p] = "l_once"]
  /\ UNCHANGED <<sCfg, sOnce, sInit, sCache, gate, sRaw, sCode, sFound, sNext, sResult,
                 sOpened, StreamRest>>

\* variant of SAdmit: the send on v.sem never blocks
SAdmitAlways(p) ==
  /\ sPc[p] = "gate"
  /\ gate' = gate + 1
  /\ sPc' = [sPc EXCEPT ![p] = "once"]
  /\ UNCHANGED <<sCfg, sOnce, sInit, sCache, sRaw, sCode, sFound, sNext, sResult, sOpened,
                 sLeft, StreamRest>>

\* v.sem <- struct{}{}: the send goes through while the channel has room
SAdmit(p) ==
  /\ sPc[p] = "gate"
  /\ gate < GateCap(sCfg)
  /\ gate' = gate + 1
  /\ sPc' = [sPc EXCEPT ![p] = "once"]
  /\ UNCHANGED <<sCfg, sOnce, sInit, sCache, sRaw, sCode, sFound, sNext, sResult, sOpened,
                 sLeft, StreamRest>>

\* v.once.Do: the check has been run already
SOnceSkip(p) ==
  /\ sPc[p] \in {"once", "l_once"}
  /\ sOnce = "done"
  /\ sPc' = [sPc EXCEPT ![p] = IF sPc[p] = "once" THEN "check" ELSE "l_ret"]
  /\ UNCHANGED <<sCfg, sOnce, sInit, sCache, gate, sRaw, sCode, sFound, sNext, sResult,
                 sOpened, sLeft, StreamRest>>

\* v.once.Do: the first caller takes the check, the others wait for it
SOnceEnter(p) ==
  /\ sPc[p] \in {"once", "l_once"}
  /\ sOnce = "new"
  /\ sOnce' = "running"
  /\ sPc' = [sPc EXCEPT ![p] = IF sPc[p] = "once" THEN "body" ELSE "l_body"]
  /\ UNCHANGED <<sCfg, sInit, sCache, gate, sRaw, sCode, sFound, sNext, sResult, sOpened,
                 sLeft, StreamRest>>

\* the function passed to v.once.Do: the three checks of the configuration
SOnceBody(p) ==
  /\ sPc[p] \in {"body", "l_body"}
  /\ sInit' = ConfigCheck(sCfg)
  /\ sOnce' = "done"
  /\ sPc' = [sPc EXCEPT ![p] = IF sPc[p] = "body" THEN "check" ELSE "l_ret"]
  /\ UNCHANGED <<sCfg, sCache, gate, sRaw, sCode, sFound, sNext, sResult, sOpened, sLeft,
                 StreamRest>>

\* LoadCouponFiles returns v.init
SLoadReturn(p) ==
  /\ sPc[p] = "l_ret"
  /\ sPc' = [sPc EXCEPT ![p] = "idle"]
  /\ UNCHANGED <<sCfg, sOnce, sInit, sCache, gate, sRaw, sCode, sFound, sNext, sResult,
                 sOpened, sLeft, StreamRest>>

\* the code is trimmed and checked; a rejected code returns false
SCheck(p) ==
  /\ sPc[p] = "check"
  /\ LET c == TrimSpace(sRaw[p])
     IN /\ sCode' = [sCode EXCEPT ![p] = c]
        /\ IF Rejected(sCfg, c)
           THEN /\ sResult' = [sResult EXCEPT ![p] = FALSE]
                /\ sPc' = [sPc EXCEPT ![p] = "release"]
           ELSE /\ sPc' = [sPc EXCEPT ![p] = "load"]
                /\ UNCHANGED sResult
  /\ UNCHANGED <<sCfg, sOnce, sInit, sCache, gate, sRaw, sFound, sNext, sOpened, sLeft,
                 StreamRest>>

\* v.cache.Load(code): a cached verdict is returned, else the scan starts
SCacheLoad(p) ==
  /\ sPc[p] = "load"
  /\ IF sCode[p] \in DOMAIN sCache
     THEN /\ sResult' = [sResult EXCEPT ![p] = sCache[sCode[p]]]
          /\ sPc' = [sPc EXCEPT ![p] = "release"]
          /\ UNCHANGED <<sFound, sNext>>
     ELSE /\ sFound' = [sFound EXCEPT ![p] = 0]
          /\ sNext' = [sNext EXCEPT ![p] = 1]
          /\ sPc' = [sPc EXCEPT ![p] = "scan"]
          /\ UNCHANGED sResult
  /\ UNCHANGED <<sCfg, sOnce, sInit, sCache, gate, sRaw, sCode, sOpened, sLeft, StreamRest>>

\* v.cache.Store(code, b)
SStore(code_, b) ==
  [k \in DOMAIN sCache \cup {code_} |-> IF k = code_ THEN b ELSE sCache[k]]

\* variant of SScanFile: every file is scanned before the count is compared
SScanFileAll(p) ==
  /\ sPc[p] = "scan"
  /\ IF sNext[p] > Len(sCfg.Files)
     THEN /\ sCache' = SStore(sCode[p], sFound[p] >= sCfg.RequiredHits)
          /\ sResult' = [sResult EXCEPT ![p] = sFound[p] >= sCfg.RequiredHits]
          /\ sPc' = [sPc EXCEPT ![p] = "release"]
          /\ UNCHANGED <<sFound, sNext, sOpened>>
     ELSE LET i == sNext[p]
              ok == foundInFileStream(Disk[sCfg.Files[i]], sCode[p],
                                      sCfg.MinLen, sCfg.MaxLen)
          IN /\ sOpened' = [sOpened EXCEPT ![p] = @ \cup {i}]
             /\ sFound' = [sFound EXCEPT ![p] = IF ok THEN @ + 1 ELSE @]
             /\ sNext' = [sNext EXCEPT ![p] = i + 1]
             /\ UNCHANGED <<sCache, sResult, sPc>>
  /\ UNCHANGED <<sCfg, sOnce, sInit, gate, sRaw, sCode, sLeft, StreamRest>>

\* one turn of the loop over v.cfg.Files, or the fall through after it
SScanFile(p) ==
  /\ sPc[p] = "scan"
  /\ IF sNext[p] > Len(sCfg.Files)
     THEN /\ sCache' = SStore(sCode[p], FALSE)
          /\ sResult' = [sResult EXCEPT ![p] = FALSE]
          /\ sPc' = [sPc EXCEPT ![p] = "release"]
          /\ UNCHANGED <<sFound, sNext, sOpened>>
     ELSE LET i == sNext[p]
              ok == foundInFileStream(Disk[sCfg.Files[i]], sCode[p],
                                      sCfg.MinLen, sCfg.MaxLen)
              n == IF ok THEN sFound[p] + 1 ELSE sFound[p]
          IN /\ sOpened' = [sOpened EXCEPT ![p] = @ \cup {i}]
             /\ sFound' = [sFound EXCEPT ![p] = n]
             /\ IF ok /\ n >= sCfg.RequiredHits
                THEN /\ sCache' = SStore(sCode[p], TRUE)
                     /\ sResult' = [sResult EXCEPT ![p] = TRUE]
                     /\ sPc' = [sPc EXCEPT ![p] = "release"]
                     /\ UNCHANGED sNext
                ELSE /\ sNext' = [sNext EXCEPT ![p] = i + 1]
                     /\ UNCHANGED <<sCache, sResult, sPc>>
  /\ UNCHANGED <<sCfg, sOnce, sInit, gate, sRaw, sCode, sLeft, StreamRest>>

\* variant of SRelease: the call returns without the receive from v.sem
SReleaseKeep(p) ==
  /\ sPc[p] = "release"
  /\ sPc' = [sPc EXCEPT ![p] = "idle"]
  /\ sRaw' = [sRaw EXCEPT ![p] = <<>>]
  /\ sCode' = [sCode EXCEPT ![p] = <<>>]
  /\ sFound' = [sFound EXCEPT ![p] = 0]
  /\ sNext' = [sNext EXCEPT ![p] = 1]
  /\ sOpened' = [sOpened EXCEPT ![p] = {}]
  /\ UNCHANGED <<sCfg, sOnce, sInit, sCache, gate, sResult, sLeft, StreamRest>>

\* the deferred <-v.sem: the slot is given back and the call returns
SRelease(p) ==
  /\ sPc[p] = "release"
  /\ gate' = gate - 1
  /\ sPc' = [sPc EXCEPT ![p] = "idle"]
  /\ sRaw' = [sRaw EXCEPT ![p] = <<>>]
  /\ sCode' = [sCode EXCEPT ![p] = <<>>]
  /\ sFound' = [sFound EXCEPT ![p] = 0]
  /\ sNext' = [sNext EXCEPT ![p] = 1]
  /\ sOpened' = [sOpened EXCEPT ![p] = {}]
  /\ UNCHANGED <<sCfg, sOnce, sInit, sCache, sResult, sLeft, StreamRest>>

NextStream ==
  \/ \E p \in StreamCallers : \E r \in StreamCodes : SCall(p, r)
  \/ \E p \in StreamCallers : SCallLoad(p)
  \/ \E p \in StreamCallers : SAdmit(p)
  \/ \E p \in StreamCallers : SOnceSkip(p)
  \/ \E p \in StreamCallers : SOnceEnter(p)
  \/ \E p \in StreamCallers : SOnceBody(p)
  \/ \E p \in StreamCallers : SLoadReturn(p)
  \/ \E p \in StreamCallers : SCheck(p)
  \/ \E p \in StreamCallers : SCacheLoad(p)
  \/ \E p \in StreamCallers : SScanFile(p)
  \/ \E p \in StreamCallers : SRelease(p)

SpecStream == InitStream /\ [][NextStream]_vars

(***************************************************************************)
(* Both validators under fair scheduling: a goroutine that can take a step *)
(* takes it in the end, and a sender blocked on v.sem gets its turn.  A    *)
(* behaviour exercises one validator or the other.                         *)
(***************************************************************************)
\* the code the calls under fair scheduling pass
LiveCodes == { <<"A", "B">> }

\* the parallel validator: more files than worker slots, one caller making
\* MaxCalls calls or two callers racing
LiveWorkloads ==
  { [cfg |-> [Files |-> <<"hit", "mid", "gone">>, MinLen |-> 2, MaxLen |-> 3,
              RequiredHits |-> k, CacheSize |-> cs],
     quota |-> [p \in Callers |-> IF p = "g1" THEN MaxCalls ELSE 0]] :
       k \in {1, 2}, cs \in {-1, 1} }
  \cup { [cfg |-> [Files |-> <<"mid", "hit">>, MinLen |-> 2, MaxLen |-> 3,
                   RequiredHits |-> 2, CacheSize |-> 1],
          quota |-> [p \in Callers |-> 1]] }

\* the streaming validator: one or two slots for three callers
LiveStreamConfigs ==
  { [Files |-> <<"hit", "mid">>, MinLen |-> 2, MaxLen |-> 3, RequiredHits |-> 2,
     MaxConcurrentValidations |-> m] : m \in {1, 2} }

InitLive ==
  /\ ScanOff
  /\ RefOff
  /\ LockOff
  /\ AppOff
  /\ menu = LiveCodes
  /\ \/ /\ \E w \in LiveWorkloads : InitCfg(w.cfg) /\ quota = w.quota
        /\ StreamOff
     \/ /\ InitCfg([Files |-> <<>>, MinLen |-> 2, MaxLen |-> 3, RequiredHits |-> 1,
                    CacheSize |-> -1])
        /\ quota = [p \in Callers |-> 0]
        /\ sCfg \in LiveStreamConfigs
        /\ sOnce = "new"
        /\ sInit = "nil"
        /\ sCache = <<>>
        /\ gate = 0
        /\ sPc = [p \in StreamCallers |-> "idle"]
        /\ sRaw = [p \in StreamCallers |-> <<>>]
        /\ sCode = [p \in StreamCallers |-> <<>>]
        /\ sFound = [p \in StreamCallers |-> 0]
        /\ sNext = [p \in StreamCallers |-> 1]
        /\ sResult = [p \in StreamCallers |-> FALSE]
        /\ sOpened = [p \in StreamCallers |-> {}]
        /\ sLeft = MaxStreamCalls

\* the steps of a ValidatePromoCode or LoadCouponFiles call of caller p on
\* the parallel validator, once the call is made
CallStep(p) ==
  \/ OnceSkip(p)
  \/ OnceEnter(p)
  \/ OnceBody(p)
  \/ LoadReturn(p)
  \/ Check(p)
  \/ CacheGet(p)
  \/ LoopHead(p)
  \/ Spawn(p)
  \/ Wait(p)
  \/ CacheAdd(p)
  \/ Return(p)

\* the steps of the scan goroutine of file i of the call of p
TaskStep(p, i) ==
  \/ TaskStart(p, i)
  \/ TaskScan(p, i)
  \/ TaskStore(p, i)
  \/ TaskRelease(p, i)
  \/ TaskDone(p, i)

\* the steps of a call of caller p on the streaming validator once it holds
\* a slot of v.sem
StreamStep(p) ==
  \/ SOnceSkip(p)
  \/ SOnceEnter(p)
  \/ SOnceBody(p)
  \/ SLoadReturn(p)
  \/ SCheck(p)
  \/ SCacheLoad(p)
  \/ SScanFile(p)
  \/ SRelease(p)

NextLive ==
  \/ \E p \in Callers : CallValidate(p)
  \/ \E p \in Callers : CallLoad(p)
  \/ \E p \in Callers : CallStep(p)
  \/ \E p \in Callers : \E i \in 1..NFiles : TaskStep(p, i)
  \/ \E p \in StreamCallers : \E r \in LiveCodes : SCall(p, r)
  \/ \E p \in StreamCallers : SCallLoad(p)
  \/ \E p \in StreamCallers : SAdmit(p)
  \/ \E p \in StreamCallers : StreamStep(p)

\* a step of some goroutine inside a call (not the making of a new call)
Progress ==
  \/ \E p \in Callers : CallStep(p)
  \/ \E p \in Callers : \E i \in 1..NFiles : TaskStep(p, i)
  \/ \E p \in StreamCallers : SAdmit(p)
  \/ \E p \in StreamCallers : StreamStep(p)

\* the least the Go scheduler gives: while some goroutine inside a call can
\* take a step, one of them does in the end
FairLive == WF_vars(Progress)

SpecLive == InitLive /\ [][NextLive]_vars /\ FairLive


(***************************************************************************)
(* foundInFile on its own: the file and the code are drawn from bounded    *)
(* sets and the scan is applied to them.                                   *)
(***************************************************************************)
ScanChars == {"A", "B", "a", "e'", " ", "-"}

ScanCodes == { <<"A", "B">>, <<"A">>, <<"a", "B">> }

ScanKinds == {"plain", "gz", "badgz", "missing", "second", "afterlong", "aftercut"}

\* the file scanned: line l read plainly or through gzip, behind a broken
\* gzip header, missing, or second after a line that fits, that is too long,
\* or after which the stream breaks
ScanFileOf(k, l) ==
  IF k \in {"plain", "gz", "badgz", "missing"}
  THEN [exists |-> k # "missing", gz |-> k \in {"gz", "badgz"}, header |-> k = "gz",
        good |-> 1, lines |-> <<l>>]
  ELSE [exists |-> TRUE, gz |-> FALSE, header |-> FALSE,
        good |-> IF k = "aftercut" THEN 1 ELSE 2,
        lines |-> <<IF k = "afterlong" THEN Filler(MaxLineBytes) ELSE <<"-">>, l>>]

InitScan ==
  /\ InitCfg([Files |-> <<>>, MinLen |-> 2, MaxLen |-> 3, RequiredHits |-> 1, CacheSize |-> -1])
  /\ quota = [p \in Callers |-> 0]
  /\ menu = {}
  /\ scanPc = "ready"
  /\ \E k \in ScanKinds : \E n \in 0..MaxScanLine : \E l \in [1..n -> ScanChars] :
       scanSrc = ScanFileOf(k, l)
  /\ scanCode \in ScanCodes
  /\ scanHit = FALSE
  /\ RefOff
  /\ StreamOff
  /\ LockOff
  /\ AppOff

\* ok, _ := foundInFile(path, code)
ScanFile ==
  /\ scanPc = "ready"
  /\ scanHit' = foundInFile(scanSrc, scanCode)
  /\ scanPc' = "done"
  /\ UNCHANGED <<cfg, once, init, lru, callVars, last, loadRets, initRuns, quota, menu,
                 scanSrc, scanCode, fineVars, refVars, streamVars, lockVars, appVars>>

NextScan == ScanFile

SpecScan == InitScan /\ [][NextScan]_vars


(***************************************************************************)
(* Vocabulary of the properties, stated without the operators above.       *)
(***************************************************************************)
AsciiAlnum == AsciiUpper \cup AsciiLower \cup AsciiDigit

LetterOrDigit(ch) == ch \in AsciiAlnum \cup UniLetter

\* line[i..j] is a token: a maximal run of letters and digits
TokenAt(line, i, j) ==
  /\ i <= j
  /\ \A k \in i..j : LetterOrDigit(line[k])
  /\ i = 1 \/ ~LetterOrDigit(line[i - 1])
  /\ j = Len(line) \/ ~LetterOrDigit(line[j + 1])

LineHasToken(line, tok) ==
  \E i, j \in 1..Len(line) : TokenAt(line, i, j) /\ SubSeq(line, i, j) = tok

\* the file can be opened and, when named .gz, starts as a gzip stream
Readable(src) == src.exists /\ (src.gz => src.header)

\* the tok is a token of some line the file holds (a line the stream
\* delivers), whatever comes before that line
ContainsToken(src, tok) ==
  /\ Readable(src)
  /\ \E n \in 1..Len(src.lines) : n <= src.good /\ LineHasToken(src.lines[n], tok)

\* the tok is a token of the part of the file a scan can read: a line that
\* is delivered, with no line too long up to it
HasToken(src, tok) ==
  /\ Readable(src)
  /\ \E n \in 1..Len(src.lines) :
       /\ n <= src.good
       /\ LineHasToken(src.lines[n], tok)
       /\ \A m \in 1..n : ByteLen(src.lines[m]) < MaxLineBytes

ValidCfg(c) ==
  Len(c.Files) > 0 /\ c.MinLen > 0 /\ c.MaxLen >= c.MinLen /\ c.RequiredHits > 0

\* trimmed, of a length within the bounds, ASCII letters and digits only
WellFormed(c, t) ==
  /\ Len(t) >= c.MinLen /\ Len(t) <= c.MaxLen
  /\ \A k \in 1..Len(t) : t[k] \in AsciiAlnum

\* r is c with whitespace before and after it
Pads(r, c) ==
  \E i \in 0..Len(r) :
    /\ i + Len(c) <= Len(r)
    /\ SubSeq(r, i + 1, i + Len(c)) = c
    /\ \A k \in 1..i : r[k] \in WhiteSpace
    /\ \A k \in (i + Len(c) + 1)..Len(r) : r[k] \in WhiteSpace

\* the positions of r that hold no whitespace
Inked(r) == { k \in 1..Len(r) : r[k] \notin WhiteSpace }

\* r without its surrounding whitespace: from its first to its last
\* character that is no whitespace
Core(r) ==
  IF Inked(r) = {} THEN <<>>
  ELSE SubSeq(r, CHOOSE k \in Inked(r) : \A m \in Inked(r) : k <= m,
                 CHOOSE k \in Inked(r) : \A m \in Inked(r) : k >= m)

\* the trimmed code is too short, too long or has a character that is no
\* ASCII letter or digit
Malformed(c, r) ==
  \/ ByteLen(Core(r)) < c.MinLen
  \/ ByteLen(Core(r)) > c.MaxLen
  \/ \E k \in 1..Len(Core(r)) : Core(r)[k] \notin AsciiAlnum

\* configured sources a scan finds the code in
SourcesWith(c, t) == { i \in 1..Len(c.Files) : HasToken(Disk[c.Files[i]], t) }

\* what a validator built without a cache returns for r: the pre-check, then
\* a count over all the files
Uncached(c, r) ==
  LET t == TrimSpace(r)
  IN /\ ~Rejected(c, t)
     /\ Cardinality({ i \in 1..Len(c.Files) : foundInFile(Disk[c.Files[i]], t) })
          >= c.RequiredHits

\* goroutines of the call of p that hold a worker slot: started and not yet
\* past their deferred <-sem
SlotHolders(p) ==
  { i \in 1..NFiles : task[p][i] \in {"spawned", "open", "scan", "store", "release"} }

\* goroutines of the call of p that exist: started and not yet past their
\* deferred wg.Done
Running(p) == { i \in 1..NFiles : task[p][i] \notin {"none", "done"} }

\* the orders in which n files can be listed
Orders(n) == { q \in [1..n -> 1..n] : \A i, j \in 1..n : q[i] = q[j] => i = j }

RECURSIVE InOrder(_, _, _, _)
\* the verdict of going through the files one after the other in the order
\* listed, n hits counted so far, stopping once k hits are counted
InOrder(files, tok, k, n) ==
  IF n >= k THEN TRUE
  ELSE IF files = <<>> THEN FALSE
  ELSE InOrder(Tail(files), tok, k,
               IF HasToken(Disk[Head(files)], tok) THEN n + 1 ELSE n)

(***************************************************************************)
(* Properties.                                                             *)
(***************************************************************************)

\* C1: under a valid configuration a call for a well-formed code returns true
\* exactly when at least RequiredHits configured sources have the code as a
\* token on a line their scan reaches (no line too long for the scanner
\* before it), whatever the interleaving of its scan goroutines; the verdict
\* computed after a cache miss ("add") and the verdict returned ("ret") agree
\* with the count.
C1_QuorumVerdict ==
  \A p \in Callers :
    ( /\ op[p] = "validate" /\ pc[p] \in {"add", "ret"}
      /\ ValidCfg(cfg) /\ WellFormed(cfg, code[p]) )
    => ( result[p] <=> Cardinality(SourcesWith(cfg, code[p])) >= cfg.RequiredHits )

\* C1 as worded: the verdict is true exactly when at least RequiredHits
\* sources hold the code as a token on any of their lines.
C1_AnyLineCounts ==
  \A p \in Callers :
    ( /\ op[p] = "validate" /\ pc[p] \in {"add", "ret"}
      /\ ValidCfg(cfg) /\ WellFormed(cfg, code[p]) )
    => ( result[p] <=>
           Cardinality({ i \in 1..NFiles : ContainsToken(FileOf(i), code[p]) })
             >= cfg.RequiredHits )

\* C1 witness: a call over three files with K = 2 returns true after a cache
\* miss and an early stop that left one file unopened.
C1_Witness ==
  \E p \in Callers :
    /\ pc[p] = "ret" /\ op[p] = "validate" /\ ValidCfg(cfg)
    /\ WellFormed(cfg, code[p]) /\ result[p]
    /\ cfg.RequiredHits = 2 /\ NFiles = 3
    /\ cacheOps[p] = 2 /\ Cardinality(scanned[p]) = 2

\* C2: a call whose trimmed code is too short, too long or not alphanumeric
\* never opens a file, never calls Get or Add on the cache, never gets past
\* the pre-check, and returns false.
C2_MalformedRejected ==
  \A p \in Callers :
    (op[p] = "validate" /\ pc[p] # "idle" /\ Malformed(cfg, raw[p]))
    => /\ pc[p] \in {"once", "body", "check", "ret"}
       /\ scanned[p] = {} /\ handles[p] = {} /\ cacheOps[p] = 0
       /\ pc[p] = "ret" => ~result[p]

\* C2 witness: a call for "A-" is about to return under a valid configuration
\* with the cache enabled.
C2_Witness ==
  \E p \in Callers :
    /\ pc[p] = "ret" /\ op[p] = "validate" /\ raw[p] = <<"A", "-">>
    /\ ValidCfg(cfg) /\ ~lru.nil /\ ~result[p]

\* C3: under an invalid configuration no call opens a file and every call
\* returns false.
C3_InvalidConfigFalse ==
  \A p \in Callers :
    (op[p] = "validate" /\ ~ValidCfg(cfg))
    => scanned[p] = {} /\ (pc[p] = "ret" => ~result[p])

C5_Idempotent ==
  \A p \in Callers :
    ( /\ op[p] = "validate" /\ pc[p] = "ret"
      /\ last # <<>> /\ last[1].raw = raw[p] )
    => /\ result[p] = last[1].result
       /\ (alone[p] /\ ~lru.nil /\ lru.max >= 1) => scanned[p] = {}

\* C5 witness: the second of two calls for "AB" in a row is answered true by
\* one Get, with no file opened.
C5_Witness ==
  \E p \in Callers :
    /\ pc[p] = "ret" /\ op[p] = "validate" /\ alone[p]
    /\ last # <<>> /\ last[1].raw = raw[p] /\ raw[p] = <<"A", "B">>
    /\ result[p] /\ cacheOps[p] = 1 /\ scanned[p] = {}

\* C6: every call, answered from the cache or not, returns what the validator
\* without a cache returns for its argument.
C6_CacheTransparent ==
  \A p \in Callers :
    (op[p] = "validate" /\ pc[p] = "ret") => result[p] = Uncached(cfg, raw[p])

\* C6 witness: a call for a well-formed code is answered false from the cache.
C6_Witness ==
  \E p \in Callers :
    /\ pc[p] = "ret" /\ op[p] = "validate" /\ WellFormed(cfg, code[p])
    /\ ~lru.nil /\ cacheOps[p] = 1 /\ ~result[p]

\* C7: foundInFile reports a hit exactly when the code is a token (a maximal
\* run of letters and digits, compared character by character) of a line the
\* scan reaches (no line too long for the scanner up to it): no hit for a
\* token that only contains the code or differs in case.
C7_ExactToken ==
  scanPc = "done" => (scanHit <=> HasToken(scanSrc, scanCode))

\* C7 as worded: a hit exactly when the code is a token of any line of the
\* source.
C7_AnyLineHit ==
  scanPc = "done" => (scanHit <=> ContainsToken(scanSrc, scanCode))

\* C7 witness: the code between separators inside a line is a hit.
C7_Witness ==
  /\ scanPc = "done" /\ scanHit
  /\ scanCode = <<"A", "B">>
  /\ scanSrc.lines = << <<"a", " ", "A", "B">> >>

\* C8: a call whose argument is the last returned call's argument with
\* whitespace added or removed around it returns the same verdict and, when
\* nothing ran in between and there is a cache, opens no file (it is answered
\* from the entry of the trimmed code); no cache key starts or ends with
\* whitespace.
C8_WhitespaceIgnored ==
  /\ \A p \in Callers :
       ( /\ op[p] = "validate" /\ pc[p] = "ret"
         /\ last # <<>> /\ last[1].raw # raw[p]
         /\ Pads(raw[p], last[1].raw) \/ Pads(last[1].raw, raw[p]) )
       => /\ result[p] = last[1].result
          /\ (alone[p] /\ ~lru.nil) => scanned[p] = {}
  /\ \A k \in lru.m : k = <<>> \/ (k[1] \notin WhiteSpace /\ k[Len(k)] \notin WhiteSpace)

\* C8 witness: " AB " right after "AB" is answered true by one Get.
C8_Witness ==
  \E p \in Callers :
    /\ pc[p] = "ret" /\ op[p] = "validate" /\ alone[p]
    /\ last # <<>> /\ last[1].raw = <<"A", "B">> /\ raw[p] = <<" ", "A", "B", " ">>
    /\ last[1].result /\ result[p] /\ cacheOps[p] = 1 /\ scanned[p] = {}

\* C9: the body of once.Do runs at most once, by one caller at a time, and
\* every LoadCouponFiles call returns the outcome the body recorded.
C9_ConfigCheckedOnce ==
  /\ initRuns <= 1
  /\ Cardinality({ p \in Callers : pc[p] = "body" }) <= 1
  /\ once = "done" <=> initRuns = 1
  /\ once = "running" <=> \E p \in Callers : pc[p] = "body"
  /\ \A p \in Callers : pc[p] \in {"loadret", "check"} => once = "done"
  /\ \A r \in loadRets : r = init /\ r = ConfigCheck(cfg)

\* C9 witness: two callers have both called LoadCouponFiles and got the same
\* error back.
C9_Witness ==
  /\ \A p \in Callers : op[p] = "load" /\ pc[p] = "idle" /\ quota[p] = 0
  /\ initRuns = 1
  /\ loadRets = {"invalid length bounds"}

C11_UnreachableQuorum ==
  cfg.RequiredHits > NFiles
  => /\ (NFiles > 0 /\ cfg.MinLen > 0 /\ cfg.MaxLen >= cfg.MinLen) => loadRets \subseteq {"nil"}
     /\ \A p \in Callers : (op[p] = "validate" /\ pc[p] \in {"add", "ret"}) => ~result[p]
     /\ \A e \in 1..Len(lru.ll) : ~lru.ll[e].v

\* C11 witness: with one file and RequiredHits = 2 LoadCouponFiles has
\* returned nil and a call whose code the file holds returns false.
C11_Witness ==
  /\ cfg.RequiredHits > NFiles /\ loadRets = {"nil"}
  /\ \E p \in Callers :
       /\ op[p] = "validate" /\ pc[p] = "ret" /\ ~result[p]
       /\ hits[p] # {} /\ found[p] = NFiles

\* C13: outside the dispatch loop and the wait, and so from wg.Wait on to the
\* return and after it, no scan goroutine of the call is left: each one
\* dispatched has run to its end, no worker slot is taken, no file is open.
C13_NoTaskOutlivesCall ==
  \A p \in Callers :
    pc[p] \notin {"loop", "acquire", "wait"}
    => /\ \A i \in 1..NFiles : task[p][i] \in {"none", "done"}
       /\ sem[p] = 0 /\ wg[p] = 0 /\ handles[p] = {}

\* C13 witness: the wait is over with one goroutine that counted a hit and
\* one that was skipped, both at their end.
C13_Witness ==
  \E p \in Callers :
    /\ pc[p] = "add"
    /\ \E i, j \in 1..NFiles :
         /\ task[p][i] = "done" /\ i \in hits[p]
         /\ task[p][j] = "done" /\ j \notin scanned[p]

\* C16: the scan goroutines of a call that hold a worker slot, which they do
\* from the go statement until after their scan, are never more than the
\* worker limit, and neither are the files the call has open; the
\* semaphore counts exactly these goroutines, and a dispatcher past its
\* stop check starts the next goroutine only when a slot is free.
C16_WorkerCap ==
  \A p \in Callers :
    /\ Cardinality(SlotHolders(p)) = sem[p]
    /\ sem[p] <= WorkerLimit
    /\ Cardinality(handles[p]) <= WorkerLimit
    /\ handles[p] \subseteq SlotHolders(p)

\* C16 as worded: the goroutines of a call that are started and not yet
\* finished are never more than the worker limit.
C16_RunningCap ==
  \A p \in Callers : Cardinality(Running(p)) <= WorkerLimit

\* C16 witness: the dispatcher has a further file to start and waits, every
\* slot being held by a goroutine that is scanning.
C16_Witness ==
  \E p \in Callers :
    /\ pc[p] = "acquire" /\ sem[p] = WorkerLimit
    /\ \A i \in SlotHolders(p) : task[p][i] = "scan"

\* C18: while a call is under way no step lowers its hit counter, and a call
\* whose counter has reached RequiredHits (at least 1) returns true.
C18_QuorumFrozen ==
  [][ \A p \in Callers :
        /\ pc'[p] # "idle" => found'[p] >= found[p]
        /\ ( /\ pc[p] = "ret" /\ pc'[p] = "idle"
             /\ cfg.RequiredHits >= 1 /\ found[p] >= cfg.RequiredHits )
           => result[p] ]_vars

\* C18 witness: a call returns true with more hits counted than required: a
\* scan still running when the quorum was reached reported a hit later.
C18_Witness ==
  \E p \in Callers :
    /\ pc[p] = "ret" /\ op[p] = "validate" /\ result[p]
    /\ cfg.RequiredHits >= 1 /\ found[p] > cfg.RequiredHits

\* C17: a call returns what going through the files one by one gives, in
\* whichever order the files are listed: the verdict is the same for every
\* permutation of cfg.Files.
C17_OrderFree ==
  \A p \in Callers :
    (op[p] = "validate" /\ pc[p] = "ret")
    => \A q \in Orders(NFiles) :
         result[p] = ( /\ ~Malformed(cfg, raw[p])
                       /\ InOrder([i \in 1..NFiles |-> cfg.Files[q[i]]], Core(raw[p]),
                                  cfg.RequiredHits, 0) )

\* C17 witness: with RequiredHits = 1 a call returns true having opened the
\* second file listed and not the first one, which holds the code too.
C17_Witness ==
  \E p \in Callers :
    /\ pc[p] = "ret" /\ op[p] = "validate" /\ result[p]
    /\ cfg.RequiredHits = 1 /\ NFiles >= 2
    /\ 2 \in scanned[p] /\ 1 \notin scanned[p]
    /\ HasToken(FileOf(1), code[p])

\* C20: a validator configured with a negative CacheSize has no cache: no
\* call does a Get or an Add and every call that passes the pre-check opens
\* files; CacheSize 0 gives a cache of DefaultCacheSize entries, a positive
\* CacheSize a cache of that capacity, and NewLRU with a capacity below 1
\* gives a cache of capacity 1.
C20_NegativeDisables ==
  /\ cfg.CacheSize < 0
     => /\ lru = NilLRU
        /\ \A p \in Callers :
             /\ cacheOps[p] = 0
             /\ ( /\ op[p] = "validate" /\ pc[p] = "ret"
                  /\ ~Malformed(cfg, raw[p]) /\ NFiles > 0 )
                => scanned[p] # {}
  /\ cfg.CacheSize = 0 => ~lru.nil /\ lru.max = DefaultCacheSize
  /\ cfg.CacheSize > 0 => ~lru.nil /\ lru.max = cfg.CacheSize
  /\ \A n \in {-1, 0} : NewLRU(n).max = 1 /\ LRUGet(LRUAdd(NewLRU(n), <<"A">>, TRUE), <<"A">>).ok

\* C20 as worded: with a CacheSize of 0 or below, in a configuration that is
\* valid, nothing is ever cached and every call that passes the pre-check
\* opens files.
C20_NonPositiveIsNoOp ==
  (cfg.CacheSize <= 0 /\ ValidCfg(cfg))
  => /\ lru.ll = <<>>
     /\ \A p \in Callers :
          ( /\ op[p] = "validate" /\ pc[p] = "ret"
            /\ ~Malformed(cfg, raw[p]) /\ NFiles > 0 )
          => scanned[p] # {}

\* C20 witness: under a negative CacheSize the second of two calls in a row
\* for the same code opens files again.
C20_Witness ==
  \E p \in Callers :
    /\ cfg.CacheSize < 0 /\ pc[p] = "ret" /\ op[p] = "validate" /\ alone[p]
    /\ last # <<>> /\ last[1].raw = raw[p] /\ scanned[p] # {}

\* C14: the stop flag is set only when the counter has reached RequiredHits;
\* from then on a dispatcher that comes to its stop check leaves the loop
\* and a goroutine that comes to its stop check ends without opening its
\* file.
C14_StopSeen ==
  [][ \A p \in Callers :
        /\ stop'[p] => found'[p] >= cfg.RequiredHits
        /\ (stop[p] /\ pc[p] = "loop") => pc'[p] \in {"loop", "wait"}
        /\ \A i \in 1..NFiles :
             (stop[p] /\ task[p][i] = "spawned") => task'[p][i] \in {"spawned", "release"} ]_vars

\* C14 as worded: once the counter of a call has reached RequiredHits (at
\* least 1) the call dispatches no further file and none of its goroutines
\* opens a file.
C14_NothingAfterQuorum ==
  [][ \A p \in Callers :
        ( /\ cfg.RequiredHits >= 1 /\ found[p] >= cfg.RequiredHits
          /\ pc[p] \in {"loop", "acquire", "wait"} )
        => next'[p] = next[p] /\ scanned'[p] = scanned[p] ]_vars

\* C14 witness: the flag is set, the dispatcher has left the loop with a file
\* not dispatched, and a goroutine started before has ended without opening
\* its file.
C14_Witness ==
  \E p \in Callers :
    /\ stop[p] /\ pc[p] = "wait" /\ next[p] <= NFiles
    /\ \E i \in 1..NFiles : task[p][i] = "done" /\ i \notin scanned[p]

\* C15: a scan consumes at most one more line of its file once the stop
\* flag is set.
C15_ScanObservesStop ==
  \A p \in Callers : \A i \in 1..NFiles : late[p][i] <= 1

\* C19: after any sequence of Get and Add the cache holds the keys of the
\* reference cache, with its values, listed from the most to the least
\* recently used; a Get answers as the reference does; an Add of a new key
\* to a full cache drops exactly the key used longest ago.
C19_ReferenceLRU ==
  /\ lru.m = DOMAIN ref
  /\ { lru.ll[i].k : i \in 1..Len(lru.ll) } = DOMAIN ref
  /\ Len(lru.ll) = Cardinality(DOMAIN ref)
  /\ \A i \in 1..Len(lru.ll) : lru.ll[i].v = ref[lru.ll[i].k].v
  /\ \A i, j \in 1..Len(lru.ll) : i < j => ref[lru.ll[i].k].t > ref[lru.ll[j].k].t
  /\ got.op = "get"
     => /\ got.ok <=> got.k \in got.was
        /\ got.ok => got.v = ref[got.k].v
        /\ lru.m = got.was
        /\ got.ok => lru.ll[1].k = got.k
  /\ got.op = "add"
     => /\ lru.ll[1] = [k |-> got.k, v |-> got.v]
        /\ got.k \in got.was => lru.m = got.was
        /\ (got.k \notin got.was /\ Cardinality(got.was) < lru.max)
           => lru.m = got.was \cup {got.k}
        /\ (got.k \notin got.was /\ Cardinality(got.was) >= lru.max)
           => \E e \in got.was : lru.m = (got.was \ {e}) \cup {got.k}

\* C19 witness: a cache of capacity 2 held A and B, A was used last, and the
\* Add of AB dropped B.
C19_Witness ==
  /\ lru.max = 2 /\ got.op = "add" /\ got.k = <<"A", "B">>
  /\ got.was = { <<"A">>, <<"B">> }
  /\ lru.m = { <<"A">>, <<"A", "B">> }
  /\ Len(lru.ll) = 2 /\ lru.ll[2].k = <<"A">>

\* callers of the streaming validator that hold a slot of v.sem
Admitted == { p \in StreamCallers :
                sPc[p] \in {"once", "body", "check", "load", "scan", "release"} }

\* C12: the validator never lets more than the configured number of
\* ValidatePromoCode calls run at once (two when the configured number is
\* not positive); a further call waits at the gate, having done nothing,
\* until one of the running calls returns.
C12_AdmissionGate ==
  /\ Cardinality(Admitted)
       <= (IF sCfg.MaxConcurrentValidations <= 0 THEN 2
           ELSE sCfg.MaxConcurrentValidations)
  /\ \A p \in StreamCallers :
       sPc[p] = "gate" =>
         sCode[p] = <<>> /\ sOpened[p] = {} /\ sFound[p] = 0

\* the gate is full, one call is scanning, and a further call waits
C12_Witness ==
  /\ sCfg.MaxConcurrentValidations = 0
  /\ Cardinality(Admitted) = 2
  /\ \E p \in StreamCallers : sPc[p] = "scan" /\ sOpened[p] # {}
  /\ \E p \in StreamCallers : sPc[p] = "gate"

\* goroutines between c.mu.Lock() and c.mu.Unlock()
InCritical ==
  { p \in Callers : lPc[p] \in {"look", "g_move", "a_set", "a_move", "a_push", "a_map",
                                 "a_del", "a_rem", "unlock"} }

\* the list holds every key once and the map holds the keys of the list
WellLinked(c) ==
  /\ \A i, j \in 1..Len(c.ll) : c.ll[i].k = c.ll[j].k => i = j
  /\ c.m = { c.ll[i].k : i \in 1..Len(c.ll) }

\* the entries of cache c for key k
EntriesOf(c, k) == { i \in 1..Len(c.ll) : c.ll[i].k = k }

\* C21: whatever the interleaving of Get and Add calls of two goroutines,
\* at most one of them is between Lock and Unlock; the one that enters finds
\* the list and the map in agreement (no step of another call is half done);
\* a Get returns a miss exactly when the key had no entry when it entered,
\* and otherwise the value of that key's entry, a value some Add wrote for
\* that very key.
C21_AtomicCacheOps ==
  /\ Cardinality(InCritical) <= 1
  /\ \A p \in Callers : lPc[p] = "look" => WellLinked(lru) /\ snap[p] = lru
  /\ \A p \in Callers :
       (lPc[p] \in {"unlock", "ret"} /\ lOp[p].op = "get") =>
         /\ lRet[p].ok <=> EntriesOf(snap[p], lOp[p].k) # {}
         /\ lRet[p].ok =>
              /\ \A i \in EntriesOf(snap[p], lOp[p].k) : snap[p].ll[i].v = lRet[p].v
              /\ <<lOp[p].k, lRet[p].v>> \in stored

\* C21 witness: a Get waits for c.mu while an Add that evicts is half done
\* (the map and the list disagree) on the key the Get asks for.
C21_Witness ==
  \E p, q \in Callers :
    /\ lPc[p] = "a_rem" /\ ~WellLinked(lru)
    /\ lPc[q] = "lock" /\ lOp[q].op = "get"
    /\ lOp[q].k = lru.ll[Len(lru.ll)].k

\* C22: whenever no call on the cache is under way, the list and the map
\* hold at most as many entries as the capacity the cache was built with,
\* and that capacity has not changed.
C22_WithinCapacity ==
  mu = "free" =>
    /\ lru.max = cfg.CacheSize
    /\ Len(lru.ll) <= cfg.CacheSize
    /\ Cardinality(lru.m) <= cfg.CacheSize

\* C22 witness: the cache is full after an Add that evicted a key, with no
\* call under way.
C22_Witness ==
  /\ mu = "free" /\ \A p \in Callers : lPc[p] = "idle"
  /\ Len(lru.ll) = cfg.CacheSize
  /\ \E e \in stored : e[1] \notin lru.m

\* C23: two calls for the same code that are in flight together return the
\* same boolean, whether they were answered from the cache or both missed
\* and scanned, and for a well-formed code under a valid configuration that
\* boolean is the quorum verdict of the code.
C23_ConcurrentAgree ==
  \A p, q \in Callers :
    ( /\ op[p] = "validate" /\ pc[p] = "ret"
      /\ op[q] = "validate" /\ pc[q] = "ret" /\ raw[p] = raw[q] )
    => /\ result[p] = result[q]
       /\ (ValidCfg(cfg) /\ WellFormed(cfg, code[p])) =>
            (result[p] <=> Cardinality(SourcesWith(cfg, code[p])) >= cfg.RequiredHits)

\* C23 witness: two calls for the same code both missed the cache, both
\* scanned the two sources, and both are about to return true.
C23_Witness ==
  \E p, q \in Callers :
    /\ p # q /\ pc[p] = "ret" /\ pc[q] = "ret" /\ raw[p] = raw[q]
    /\ op[p] = "validate" /\ op[q] = "validate"
    /\ ~lru.nil /\ cfg.RequiredHits = 2
    /\ scanned[p] = {1, 2} /\ scanned[q] = {1, 2}
    /\ result[p] /\ result[q]

\* C24: the hit counter and the stop flag of a call change only in steps
\* of that call's own goroutines (or when the call returns); a call is
\* stopped only by its own count reaching RequiredHits, and a call that
\* misses the cache and finds no quorum has opened every source and counted
\* each source holding its code, whatever another call did meanwhile.
C24_StopIsPerCall ==
  /\ [][ \A p \in Callers :
           (found'[p] # found[p] \/ stop'[p] # stop[p]) =>
             /\ task'[p] # task[p]
             /\ \A q \in Callers \ {p} : task'[q] = task[q] ]_vars
  /\ [](\A p \in Callers :
          /\ stop[p] => found[p] >= cfg.RequiredHits
          /\ (pc[p] = "add" /\ ~result[p]) =>
               /\ scanned[p] = 1..NFiles
               /\ found[p] = Cardinality(SourcesWith(cfg, code[p])))

\* C24 witness: one call has reached its quorum and raised its stop flag
\* while another call, for a code without quorum, went on to open both
\* sources and is about to return false.
C24_Witness ==
  \E p, q \in Callers :
    /\ p # q /\ stop[p] /\ found[p] = 2 /\ pc[p] \in {"loop", "wait"}
    /\ pc[q] = "add" /\ ~result[q] /\ ~stop[q]
    /\ scanned[q] = {1, 2} /\ found[q] = 1

C26_NoLockAcrossScan ==
  \A p \in Callers :
    mu = p =>
      /\ pc[p] \in {"getting", "adding"}
      /\ handles[p] = {}
      /\ Running(p) = {}

\* C26 witness: one call holds the lock in the middle of its Add while the
\* other call has a source open.
C26_Witness ==
  \E p, q \in Callers :
    /\ mu = p /\ lPc[p] = "a_map" /\ pc[p] = "adding"
    /\ q # p /\ handles[q] # {} /\ pc[q] \in {"loop", "acquire", "wait"}

\* C27: a source is open only while the goroutine scanning it is inside
\* foundInFile; a call that is not between its dispatch loop and its
\* wg.Wait (before the scan, after it, returning, idle) holds no open
\* source, and a call never has more sources open than worker slots.
C27_SourcesClosed ==
  \A p \in Callers :
    /\ \A i \in handles[p] : task[p][i] = "scan"
    /\ pc[p] \notin {"loop", "acquire", "wait"} => handles[p] = {}
    /\ Cardinality(handles[p]) <= (IF NumCPU < 1 THEN 1 ELSE NumCPU)

\* C27 witness: a call is about to return with nothing open after scans that
\* ended on a missing file, on a hit in a gzip stream and on a gzip header
\* that cannot be read.
C27_Witness ==
  \E p \in Callers :
    /\ pc[p] = "ret" /\ op[p] = "validate" /\ handles[p] = {}
    /\ cfg.Files = <<"gone", "cut", "badgz">>
    /\ scanned[p] = {1, 2, 3} /\ hits[p] = {2}

\* C28: the hit counter of a call never exceeds the number of sources whose
\* goroutine has finished its scan and that hold the code, nor the number of
\* configured sources.
C28_OneHitPerSource ==
  \A p \in Callers :
    /\ found[p] <= Cardinality({ i \in 1..NFiles :
                                   /\ task[p][i] \in {"store", "release", "wgdone", "done"}
                                   /\ HasToken(Disk[cfg.Files[i]], code[p]) })
    /\ found[p] <= NFiles

\* C28 witness: with one required hit, both sources holding the code have
\* been scanned to a hit and the counter stands at two.
C28_Witness ==
  \E p \in Callers :
    /\ cfg.RequiredHits = 1 /\ NFiles = 2 /\ found[p] = 2
    /\ \A i \in 1..NFiles : task[p][i] = "done"

\* C29: every entry of the cache has as key a code without surrounding
\* whitespace, of a length within the bounds and of ASCII letters and digits
\* only, and as value the quorum verdict of that code over the sources; and
\* the Add that ends a cache-miss call leaves the entry (code -> result) in
\* the cache whenever the validator has a cache.
C29_CacheEntriesSound ==
  /\ [](\A i \in 1..Len(lru.ll) :
          /\ Core(lru.ll[i].k) = lru.ll[i].k
          /\ WellFormed(cfg, lru.ll[i].k)
          /\ lru.ll[i].v <=>
               Cardinality(SourcesWith(cfg, lru.ll[i].k)) >= cfg.RequiredHits)
  /\ [][ \A p \in Callers :
           (pc[p] = "add" /\ pc'[p] = "ret" /\ cfg.CacheSize >= 0) =>
             \E i \in 1..Len(lru'.ll) :
               lru'.ll[i] = [k |-> code[p], v |-> result[p]] ]_vars

\* C29 witness: a call passed a padded code, missed the cache, found the
\* quorum, and its trimmed code now heads the cache with the value true.
C29_Witness ==
  \E p \in Callers :
    /\ pc[p] = "ret" /\ op[p] = "validate" /\ cacheOps[p] = 2
    /\ raw[p] # code[p] /\ result[p]
    /\ Len(lru.ll) >= 1 /\ lru.ll[1] = [k |-> code[p], v |-> TRUE]

\* C30: a call on the streaming validator opens the sources in the order
\* configured, none skipped; when it returns true after scanning, the last
\* source it opened is the one that gave the K-th hit, no later source was
\* opened, and the cache already holds true for the code.
C30_SequentialEarlyExit ==
  \A p \in StreamCallers :
    /\ sOpened[p] = 1..Cardinality(sOpened[p])
    /\ (sPc[p] = "release" /\ sResult[p] /\ sOpened[p] # {}) =>
         LET n == Cardinality(sOpened[p])
         IN /\ HasToken(Disk[sCfg.Files[n]], sCode[p])
            /\ Cardinality({ i \in 1..n : HasToken(Disk[sCfg.Files[i]], sCode[p]) })
                 = sCfg.RequiredHits
            /\ sCode[p] \in DOMAIN sCache /\ sCache[sCode[p]]

\* C30 witness: with one required hit and two sources, a call returns true
\* having opened the first source only.
C30_Witness ==
  \E p \in StreamCallers :
    /\ sPc[p] = "release" /\ sResult[p]
    /\ sCfg.RequiredHits = 1 /\ Len(sCfg.Files) = 2 /\ sOpened[p] = {1}

\* C31: under fair scheduling every call on the parallel validator returns,
\* and when it has returned its worker slots are all free and its WaitGroup
\* is at zero; every caller waiting at the gate of the streaming validator
\* is admitted, every admitted call returns, and when no call is admitted
\* the gate is empty.
C31_CallsReturn ==
  /\ \A p \in Callers : (pc[p] # "idle") ~> (pc[p] = "idle")
  /\ [](\A p \in Callers : pc[p] \in {"idle", "ret"} => sem[p] = 0 /\ wg[p] = 0)
  /\ \A p \in StreamCallers : (sPc[p] = "gate") ~> (sPc[p] = "once")
  /\ \A p \in StreamCallers : (sPc[p] # "idle") ~> (sPc[p] = "idle")
  /\ []((\A p \in StreamCallers : sPc[p] \in {"idle", "gate", "l_once", "l_body", "l_ret"})
          => gate = 0)

\* C31 witness: the gate has one slot, one call holds it and is scanning,
\* and the two other callers wait at the gate.
C31_Witness ==
  /\ sCfg.MaxConcurrentValidations = 1 /\ gate = 1
  /\ \E p \in StreamCallers :
       /\ sPc[p] = "scan"
       /\ \A q \in StreamCallers \ {p} : sPc[q] = "gate"

\* C32: whenever no call on the cache is under way, every key of the map
\* has exactly one list element, every list element's key is in the map,
\* and Len (the length of the list) is the number of map keys; an Add on a
\* key that is present ends with as many elements as before and with the
\* new value on that key's element.
C32_MapMatchesList ==
  /\ mu = "free" =>
       /\ \A k \in lru.m : Cardinality(EntriesOf(lru, k)) = 1
       /\ \A i \in 1..Len(lru.ll) : lru.ll[i].k \in lru.m
       /\ LRULen(lru) = Cardinality(lru.m)
  /\ \A p \in Callers :
       ( /\ lPc[p] = "unlock" /\ lOp[p].op = "add"
         /\ EntriesOf(snap[p], lOp[p].k) # {} ) =>
         /\ Len(lru.ll) = Len(snap[p].ll)
         /\ lru.m = snap[p].m
         /\ \A i \in EntriesOf(lru, lOp[p].k) : lru.ll[i].v = lOp[p].v

\* C32 witness: an Add has just replaced the value of a key that was
\* present in a cache of two entries.
C32_Witness ==
  \E p \in Callers :
    /\ lPc[p] = "unlock" /\ lOp[p].op = "add" /\ Len(lru.ll) = 2
    /\ \E i \in EntriesOf(snap[p], lOp[p].k) : snap[p].ll[i].v # lOp[p].v

\* C33: LoadCouponFiles reports the first rule broken, in the order files,
\* length bounds, RequiredHits: an empty file list gives the no-files error
\* whatever the other fields, bad length bounds over a non-empty list give
\* the length error whatever RequiredHits, and the RequiredHits error is
\* given only when files and bounds are in order.
C33_FirstRuleReported ==
  \A r \in loadRets :
    /\ Len(cfg.Files) = 0 => r = "no files configured"
    /\ (Len(cfg.Files) > 0 /\ (cfg.MinLen <= 0 \/ cfg.MaxLen < cfg.MinLen))
         => r = "invalid length bounds"
    /\ r = "RequiredHits must be >= 1"
         => Len(cfg.Files) > 0 /\ cfg.MinLen > 0 /\ cfg.MaxLen >= cfg.MinLen

\* C33 witness: with no files, MinLen = 0 and RequiredHits = 0 the call
\* has returned the no-files error.
C33_Witness ==
  /\ cfg.Files = <<>> /\ cfg.MinLen = 0 /\ cfg.RequiredHits = 0
  /\ loadRets = {"no files configured"}


(***************************************************************************)
(* The preloading validator: LoadCouponFiles reads every file into a set   *)
(* of words once, ValidatePromoCode counts the sets that hold the code.    *)
(***************************************************************************)
\* an error value: its kind and the path it names ("" when it names none)
NoErr == [kind |-> "nil", path |-> ""]
ErrorOf(kind, path) == [kind |-> kind, path |-> path]

\* the words of a line loadCouponsFromFile keeps
WordsKept(line, minLen, maxLen) ==
  LET words == FieldsFunc(line)
  IN { words[i] : i \in { j \in 1..Len(words) :
                            /\ ByteLen(words[j]) >= minLen
                            /\ ByteLen(words[j]) <= maxLen
                            /\ isAlnum(words[j]) } }

RECURSIVE LoadLines(_, _, _, _, _)
\* the sc.Scan() loop of loadCouponsFromFile and the sc.Err() after it
LoadLines(lines, good, minLen, maxLen, set) ==
  IF lines = <<>> THEN [set |-> set, err |-> NoErr]
  ELSE IF good = 0 THEN [set |-> {}, err |-> ErrorOf("unexpected EOF", "")]
  ELSE IF ByteLen(Head(lines)) >= MaxLineBytes
       THEN [set |-> {}, err |-> ErrorOf("token too long", "")]
  ELSE LoadLines(Tail(lines), good - 1, minLen, maxLen,
                 set \cup WordsKept(Head(lines), minLen, maxLen))

\* loadCouponsFromFile(filename, minLen, maxLen): the set and the error
loadCouponsFromFile(name, minLen, maxLen) ==
  LET src == Disk[name]
  IN IF ~src.exists THEN [set |-> {}, err |-> ErrorOf("open", name)]
     ELSE IF src.gz /\ ~src.header THEN [set |-> {}, err |-> ErrorOf("gzip: invalid header", "")]
     ELSE LoadLines(src.lines, src.good, minLen, maxLen, {})

RECURSIVE LoadFiles(_, _, _)
\* the loop over s.cfg.Files in the once.Do body, from file i on: the sets
\* stored and the error that ended the loop
LoadFiles(c, i, sets) ==
  IF i > Len(c.Files) THEN [sets |-> sets, err |-> NoErr]
  ELSE LET r == loadCouponsFromFile(c.Files[i], c.MinLen, c.MaxLen)
       IN IF r.err # NoErr THEN [sets |-> sets, err |-> r.err]
          ELSE LoadFiles(c, i + 1, [sets EXCEPT ![i] = r.set])

\* the three checks of the once.Do body before any file is read
PreCheck(c) ==
  IF Len(c.Files) = 0 THEN ErrorOf("validator: no files configured", "")
  ELSE IF c.MinLen <= 0 \/ c.MaxLen < c.MinLen
       THEN ErrorOf("validator: invalid length bounds", "")
  ELSE IF c.RequiredHits <= 0 THEN ErrorOf("validator: RequiredHits must be >= 1", "")
  ELSE NoErr

\* the configurations of the preloading validator explored
PreConfigs ==
  { [Files |-> f, MinLen |-> lb[1], MaxLen |-> lb[2], RequiredHits |-> k] :
      f \in { <<>>, <<"hit", "mid">>, <<"hit", "gone">>, <<"gone", "hit">>,
              <<"badgz", "gone">>, <<"hit", "cut">>, <<"sub", "gone">> },
      lb \in { <<2, 3>>, <<0, 2>> }, k \in {0, 1, 2} }

\* the codes passed to the preloading validator
PreCodes == { <<"A", "B">>, <<" ", "B", "1">>, <<"A", "-">> }

\* what the other validators and the other specifications hold
CoreRest == <<cfg, once, init, lru, callVars, last, loadRets, initRuns, quota, menu,
              scanVars, fineVars, refVars, streamVars, lockVars>>
PreRest == <<CoreRest, ordVars, prodVars, svcVars, mwVars>>

\* the validators of the other specifications are not in use
CoreOff ==
  /\ InitCfg([Files |-> <<>>, MinLen |-> 2, MaxLen |-> 3, RequiredHits |-> 1,
              CacheSize |-> -1])
  /\ quota = [p \in Callers |-> 0]
  /\ menu = {}
  /\ ScanOff
  /\ RefOff
  /\ StreamOff
  /\ LockOff

\* NewValidatorService(cfg) of the preloading validator
InitPre ==
  /\ CoreOff
  /\ OrdOff
  /\ ProdOff
  /\ SvcOff
  /\ MwOff
  /\ \E c \in PreConfigs :
       /\ pCfg = c
       /\ couponSets = [i \in 1..Len(c.Files) |-> {}]
  /\ pOnce = "new"
  /\ pInitErr = NoErr
  /\ pLast = [op |-> "none", raw |-> <<>>, err |-> NoErr, ok |-> FALSE]
  /\ pLeft = MaxPreCalls

\* s.once.Do(func() {...}): the validator after the body has run once
OnceDone ==
  IF PreCheck(pCfg) # NoErr
  THEN [initErr |-> PreCheck(pCfg), sets |-> couponSets]
  ELSE LET r == LoadFiles(pCfg, 1, couponSets)
       IN [initErr |-> r.err, sets |-> r.sets]

\* LoadCouponFiles(): the first call runs the body, every call returns s.initErr
PreLoadCouponFiles ==
  /\ pLeft > 0
  /\ pLeft' = pLeft - 1
  /\ IF pOnce = "new"
     THEN /\ pOnce' = "done"
          /\ pInitErr' = OnceDone.initErr
          /\ couponSets' = OnceDone.sets
     ELSE UNCHANGED <<pOnce, pInitErr, couponSets>>
  /\ pLast' = [op |-> "load", raw |-> <<>>, err |-> pInitErr', ok |-> FALSE]
  /\ UNCHANGED <<pCfg, PreRest>>

\* the loop of ValidatePromoCode over s.couponSets
CountSets(sets, c, tok) ==
  Cardinality({ i \in 1..Len(sets) : tok \in sets[i] }) >= c.RequiredHits

\* variant of PreValidatePromoCode: the error of LoadCouponFiles is ignored
\* and the sets loaded so far are counted
PreValidateIgnoreErr(r) ==
  /\ pLeft > 0
  /\ pLeft' = pLeft - 1
  /\ IF pOnce = "new"
     THEN /\ pOnce' = "done"
          /\ pInitErr' = OnceDone.initErr
          /\ couponSets' = OnceDone.sets
     ELSE UNCHANGED <<pOnce, pInitErr, couponSets>>
  /\ LET trimmed == TrimSpace(r)
         ok == /\ ~(ByteLen(trimmed) < pCfg.MinLen \/ ByteLen(trimmed) > pCfg.MaxLen
                    \/ ~isAlnum(trimmed))
               /\ CountSets(couponSets', pCfg, trimmed)
     IN pLast' = [op |-> "validate", raw |-> r, err |-> NoErr, ok |-> ok]
  /\ UNCHANGED <<pCfg, PreRest>>

\* ValidatePromoCode(code) of the preloading validator
PreValidatePromoCode(r) ==
  /\ pLeft > 0
  /\ pLeft' = pLeft - 1
  /\ IF pOnce = "new"
     THEN /\ pOnce' = "done"
          /\ pInitErr' = OnceDone.initErr
          /\ couponSets' = OnceDone.sets
     ELSE UNCHANGED <<pOnce, pInitErr, couponSets>>
  /\ LET trimmed == TrimSpace(r)
         ok == /\ pInitErr' = NoErr
               /\ ~(ByteLen(trimmed) < pCfg.MinLen \/ ByteLen(trimmed) > pCfg.MaxLen
                    \/ ~isAlnum(trimmed))
               /\ CountSets(couponSets', pCfg, trimmed)
     IN pLast' = [op |-> "validate", raw |-> r, err |-> NoErr, ok |-> ok]
  /\ UNCHANGED <<pCfg, PreRest>>

NextPre ==
  \/ PreLoadCouponFiles
  \/ \E r \in PreCodes : PreValidatePromoCode(r)

SpecPre == InitPre /\ [][NextPre]_vars


\* a file of the configuration that os.Open cannot open
Unopenable(c) == { i \in 1..Len(c.Files) : ~Disk[c.Files[i]].exists }

\* every file configured before file i loads without an error
LoadsBefore(c, i) ==
  \A j \in 1..(i - 1) : loadCouponsFromFile(c.Files[j], c.MinLen, c.MaxLen).err = NoErr

UUIDs == {"u1", "u2"}
OrderIDs == {"", "not-a-uuid"} \cup UUIDs
\* the contents of an order apart from its ID
OrderItems == {"x", "y"}

\* a nil *models.Order
NilOrder == [nil |-> TRUE, ID |-> "", Items |-> ""]
\* &models.Order{ID: id, Items: items}
OrderOf(id, items) == [nil |-> FALSE, ID |-> id, Items |-> items]
\* the arguments handed to CreateOrder
OrderArgs == {NilOrder} \cup { OrderOf(id, items) : id \in OrderIDs, items \in OrderItems }

\* an error of the repository: its text and the sentinel errors.Is finds in it
NilError == [text |-> "nil", is |-> "nil"]
\* fmt.Errorf(text) without %w: errors.Is finds no sentinel
Errorf(text) == [text |-> text, is |-> "none"]

\* r.orders[id] = o
MapSet(m, id, o) == [k \in DOMAIN m \cup {id} |-> IF k = id THEN o ELSE m[k]]

\* variant of CreateOrderRet: the ID is not looked up before the order is stored
CreateOrderOverwrite(m, order) ==
  IF order.nil \/ order.ID = ""
  THEN [orders |-> m, ret |-> NilOrder, err |-> Errorf("order ID cannot be empty")]
  ELSE [orders |-> MapSet(m, order.ID, order), ret |-> order, err |-> NilError]

\* CreateOrder(order) on the map m: the map, the order and the error it returns
CreateOrderRet(m, order) ==
  IF order.nil \/ order.ID = ""
  THEN [orders |-> m, ret |-> NilOrder, err |-> Errorf("order ID cannot be empty")]
  ELSE IF order.ID \in DOMAIN m
  THEN [orders |-> m, ret |-> NilOrder, err |-> Errorf("order with ID already exists")]
  ELSE [orders |-> MapSet(m, order.ID, order), ret |-> MapSet(m, order.ID, order)[order.ID],
        err |-> NilError]

\* FindByID(id) on the map m: the order and the error it returns
FindByIDRet(m, id) ==
  IF id \in DOMAIN m THEN [ret |-> m[id], err |-> NilError]
  ELSE [ret |-> NilOrder, err |-> Errorf("order with ID not found")]

\* what the validators and the other specifications hold
OrdRest == <<CoreRest, preVars, prodVars, svcVars, mwVars>>

\* NewOrderRepo()
InitOrders ==
  /\ CoreOff
  /\ PreOff
  /\ ProdOff
  /\ SvcOff
  /\ MwOff
  /\ orders = <<>>
  /\ oLast = [op |-> "none", order |-> NilOrder, id |-> "", ret |-> NilOrder,
              err |-> NilError]
  /\ oBefore = <<>>
  /\ created = <<>>
  /\ oLeft = MaxOrderCalls

\* a caller makes CreateOrder(order)
CreateOrder(order) ==
  /\ oLeft > 0
  /\ oLeft' = oLeft - 1
  /\ LET r == CreateOrderRet(orders, order)
     IN /\ orders' = r.orders
        /\ oLast' = [op |-> "create", order |-> order, id |-> order.ID, ret |-> r.ret,
                     err |-> r.err]
        /\ created' = IF r.err = NilError /\ order.ID \notin DOMAIN created
                      THEN MapSet(created, order.ID, order)
                      ELSE created
  /\ oBefore' = orders
  /\ UNCHANGED OrdRest

\* a caller makes FindByID(id)
FindByID(id) ==
  /\ oLeft > 0
  /\ oLeft' = oLeft - 1
  /\ LET r == FindByIDRet(orders, id)
     IN oLast' = [op |-> "find", order |-> NilOrder, id |-> id, ret |-> r.ret,
                  err |-> r.err]
  /\ oBefore' = orders
  /\ UNCHANGED <<orders, created, OrdRest>>

NextOrders ==
  \/ \E order \in OrderArgs : CreateOrder(order)
  \/ \E id \in OrderIDs : FindByID(id)

SpecOrders == InitOrders /\ [][NextOrders]_vars

\* C36: CreateOrder with a nil order, an empty ID or an ID already stored
\* returns an error and leaves the stored orders as they were; each stored ID
\* maps to the order of the first create that succeeded for it, and FindByID
\* of a stored ID returns that order.
C36_FirstCreateWins ==
  /\ (oLast.op = "create"
      /\ (oLast.order.nil \/ oLast.order.ID = "" \/ oLast.order.ID \in DOMAIN oBefore)) =>
        /\ oLast.err # NilError
        /\ oLast.ret = NilOrder
        /\ orders = oBefore
  /\ DOMAIN orders = DOMAIN created
  /\ \A id \in DOMAIN orders : orders[id] = created[id]
  /\ (oLast.op = "find" /\ oLast.id \in DOMAIN created) =>
        /\ oLast.err = NilError
        /\ oLast.ret = created[oLast.id]

\* C36 witness: an order was stored under u1, a second create under u1 with
\* other contents was refused, and the first order is still the one stored.
C36_Witness ==
  /\ oLast.op = "create" /\ oLast.order = OrderOf("u1", "y")
  /\ oLast.err # NilError
  /\ "u1" \in DOMAIN orders /\ orders["u1"] = OrderOf("u1", "x")


\* C37: CreateOrder and FindByID with an ID that is not a UUID fail with
\* ErrInvalidOrderID and store nothing, and FindByID with a UUID that was
\* never created fails with ErrOrderNotFound.
C37_SentinelErrors ==
  /\ (oLast.op = "create" /\ ~oLast.order.nil /\ oLast.order.ID \notin UUIDs) =>
        /\ oLast.err.is = "ErrInvalidOrderID"
        /\ orders = oBefore
  /\ (oLast.op = "find" /\ oLast.id \notin UUIDs) => oLast.err.is = "ErrInvalidOrderID"
  /\ (oLast.op = "find" /\ oLast.id \in UUIDs /\ oLast.id \notin DOMAIN created) =>
        oLast.err.is = "ErrOrderNotFound"
  /\ \A id \in DOMAIN orders : id \in UUIDs


(***************************************************************************)
(* The in-memory product repository.                                       *)
(***************************************************************************)
ProductIDs == {"", "1", "2", "3"}
ProductNames == {"n", "m"}
\* models.Product{ID: id, Name: name}
ProductOf(id, name) == [ID |-> id, Name |-> name]
ProductArgs == { ProductOf(id, name) : id \in ProductIDs, name \in ProductNames }
\* a nil *models.Product and a pointer to a copy of p
NilProduct == [nil |-> TRUE, ID |-> "", Name |-> ""]
CopyOf(p) == [nil |-> FALSE, ID |-> p.ID, Name |-> p.Name]

\* the seeds handed to NewProductRepo
ProductSeeds == { <<>>, <<ProductOf("1", "n"), ProductOf("2", "n")>> }

RECURSIVE Seeded(_, _)
\* NewProductRepo(seed): the loop m[p.ID] = p
Seeded(m, seed) ==
  IF seed = <<>> THEN m ELSE Seeded(MapSet(m, Head(seed).ID, Head(seed)), Tail(seed))

\* delete(r.products, id)
MapDelete(m, id) == [k \in DOMAIN m \ {id} |-> m[k]]

\* GetByID(id) on the map m
GetByIDRet(m, id) ==
  IF id \notin DOMAIN m THEN [products |-> m, ret |-> NilProduct, err |-> "ErrProductNotFound"]
  ELSE [products |-> m, ret |-> CopyOf(m[id]), err |-> "nil"]

\* Create(p) on the map m
CreateRet(m, p) ==
  IF p.ID = "" THEN [products |-> m, ret |-> NilProduct, err |-> "ErrInvalidProductID"]
  ELSE IF p.ID \in DOMAIN m
  THEN [products |-> m, ret |-> NilProduct, err |-> "ErrProductExists"]
  ELSE [products |-> MapSet(m, p.ID, p), ret |-> NilProduct, err |-> "nil"]

\* Update(p) on the map m
UpdateRet(m, p) ==
  IF p.ID = "" THEN [products |-> m, ret |-> NilProduct, err |-> "ErrInvalidProductID"]
  ELSE IF p.ID \notin DOMAIN m
  THEN [products |-> m, ret |-> NilProduct, err |-> "ErrProductNotFound"]
  ELSE [products |-> MapSet(m, p.ID, p), ret |-> NilProduct, err |-> "nil"]

\* variant of DeleteRet: the key stays in the map
DeleteRetKeep(m, id) ==
  IF id = "" THEN [products |-> m, ret |-> NilProduct, err |-> "ErrInvalidProductID"]
  ELSE IF id \notin DOMAIN m
  THEN [products |-> m, ret |-> NilProduct, err |-> "ErrProductNotFound"]
  ELSE [products |-> m, ret |-> NilProduct, err |-> "nil"]

\* Delete(id) on the map m
DeleteRet(m, id) ==
  IF id = "" THEN [products |-> m, ret |-> NilProduct, err |-> "ErrInvalidProductID"]
  ELSE IF id \notin DOMAIN m
  THEN [products |-> m, ret |-> NilProduct, err |-> "ErrProductNotFound"]
  ELSE [products |-> MapDelete(m, id), ret |-> NilProduct, err |-> "nil"]

\* what the validators and the other specifications hold
ProdRest == <<CoreRest, preVars, ordVars, svcVars, mwVars>>

\* NewProductRepo(seed)
InitProducts ==
  /\ CoreOff
  /\ PreOff
  /\ OrdOff
  /\ SvcOff
  /\ MwOff
  /\ \E seed \in ProductSeeds : products = Seeded(<<>>, seed)
  /\ prLast = [op |-> "none", p |-> ProductOf("", ""), err |-> "nil", ret |-> NilProduct]
  /\ prBefore = <<>>
  /\ prLeft = MaxProductCalls

\* a call on the repository: r is what the operation returns on r.products
ProductCall(name, p, r) ==
  /\ prLeft > 0
  /\ prLeft' = prLeft - 1
  /\ products' = r.products
  /\ prLast' = [op |-> name, p |-> p, err |-> r.err, ret |-> r.ret]
  /\ prBefore' = products
  /\ UNCHANGED ProdRest

GetByID(id) == ProductCall("get", ProductOf(id, ""), GetByIDRet(products, id))
Create(p) == ProductCall("create", p, CreateRet(products, p))
Update(p) == ProductCall("update", p, UpdateRet(products, p))
Delete(id) == ProductCall("delete", ProductOf(id, ""), DeleteRet(products, id))

NextProducts ==
  \/ \E id \in ProductIDs : GetByID(id)
  \/ \E p \in ProductArgs : Create(p)
  \/ \E p \in ProductArgs : Update(p)
  \/ \E id \in ProductIDs : Delete(id)

SpecProducts == InitProducts /\ [][NextProducts]_vars

\* C38 as stated: Create of an existing ID fails with ErrProductExists, Update
\* and Delete of an absent ID fail with ErrProductNotFound, and any operation
\* with an empty ID fails with ErrInvalidProductID; every failing operation
\* leaves the product map unchanged, and after a successful Delete a GetByID
\* of that ID returns ErrProductNotFound.
C38_AnyEmptyIDInvalid ==
  /\ (prLast.op = "create" /\ prLast.p.ID # "" /\ prLast.p.ID \in DOMAIN prBefore) =>
        prLast.err = "ErrProductExists"
  /\ (prLast.op \in {"update", "delete"} /\ prLast.p.ID # ""
      /\ prLast.p.ID \notin DOMAIN prBefore) => prLast.err = "ErrProductNotFound"
  /\ (prLast.op # "none" /\ prLast.p.ID = "") => prLast.err = "ErrInvalidProductID"
  /\ (prLast.op # "none" /\ prLast.err # "nil") => products = prBefore
  /\ (prLast.op = "delete" /\ prLast.err = "nil") =>
        GetByIDRet(products, prLast.p.ID).err = "ErrProductNotFound"

\* C38 amended: Create of an existing non-empty ID fails with
\* ErrProductExists, Update and Delete of an absent non-empty ID fail with
\* ErrProductNotFound, and Create, Update and Delete with an empty ID fail
\* with ErrInvalidProductID; every failing operation leaves the product map
\* unchanged, and after a successful Delete a GetByID of that ID returns
\* ErrProductNotFound.
C38_WritesRejectEmptyID ==
  /\ (prLast.op = "create" /\ prLast.p.ID # "" /\ prLast.p.ID \in DOMAIN prBefore) =>
        prLast.err = "ErrProductExists"
  /\ (prLast.op \in {"update", "delete"} /\ prLast.p.ID # ""
      /\ prLast.p.ID \notin DOMAIN prBefore) => prLast.err = "ErrProductNotFound"
  /\ (prLast.op \in {"create", "update", "delete"} /\ prLast.p.ID = "") =>
        prLast.err = "ErrInvalidProductID"
  /\ (prLast.op # "none" /\ prLast.err # "nil") => products = prBefore
  /\ (prLast.op = "delete" /\ prLast.err = "nil") =>
        GetByIDRet(products, prLast.p.ID).err = "ErrProductNotFound"

\* C38 witness: product 1 of the seed was deleted, product 2 is still there,
\* and a GetByID of 1 would now fail.
C38_Witness ==
  /\ prLast.op = "delete" /\ prLast.p.ID = "1" /\ prLast.err = "nil"
  /\ "1" \in DOMAIN prBefore /\ "1" \notin DOMAIN products /\ "2" \in DOMAIN products


(***************************************************************************)
(* The order service: PlaceOrder over the product repository, the promo    *)
(* validator and the order repository.                                     *)
(***************************************************************************)
\* models.OrderItem{ProductID: id, Quantity: n}
ItemOf(id, n) == [ProductID |-> id, Quantity |-> n]

\* the requests handed to PlaceOrder
OrderRequests ==
  { [Items |-> items, CouponCode |-> c] :
      items \in { <<>>, <<ItemOf("1", 1)>>, <<ItemOf("", 1)>>, <<ItemOf("1", 0)>>,
                  <<ItemOf("1", 2), ItemOf("2", 1)>>, <<ItemOf("1", 1), ItemOf("3", 1)>>,
                  <<ItemOf("2", 1), ItemOf("", 0)>> },
      c \in {"", "GOOD", "BAD"} }

\* the validators the service is built with: the codes ValidatePromoCode accepts
AcceptedSets == { {}, {"GOOD"} }

\* errors of the service
NoError == [type |-> "nil", msg |-> "", item |-> 0]
\* NewValidationError(msg); item is the item number the message names, or 0
NewValidationError(msg, i) == [type |-> "ValidationError", msg |-> msg, item |-> i]
\* fmt.Errorf("failed to save order: %w", err)
SaveError == [type |-> "error", msg |-> "failed to save order", item |-> 0]

RECURSIVE ItemCheck(_, _)
\* the loop over req.Items from item i on: the first error, or none
ItemCheck(items, i) ==
  IF i > Len(items) THEN NoError
  ELSE IF items[i].ProductID = "" THEN NewValidationError("productId is required", i)
  ELSE IF items[i].Quantity <= 0 THEN NewValidationError("quantity must be > 0", i)
  ELSE ItemCheck(items, i + 1)

\* the basic request validation of PlaceOrder
BasicCheck(r) ==
  IF Len(r.Items) = 0 THEN NewValidationError("order must contain at least one item", 0)
  ELSE ItemCheck(r.Items, 1)

RECURSIVE ProductsExistFrom(_, _, _)
\* the loop of ValidateProductsExist from ID i on
ProductsExistFrom(m, ids, i) ==
  IF i > Len(ids) THEN NoError
  ELSE IF GetByIDRet(m, ids[i]).err # "nil" \/ GetByIDRet(m, ids[i]).ret.nil
       THEN NewValidationError("product with ID not found", i)
  ELSE ProductsExistFrom(m, ids, i + 1)

\* ValidateProductsExist(ids): the error it returns
ValidateProductsExist(m, ids) ==
  IF Len(ids) = 0 THEN NewValidationError("no products provided", 0)
  ELSE ProductsExistFrom(m, ids, 1)

\* the stub behind s.validator.ValidatePromoCode
StubValidatePromoCode(c) == c \in accepted

\* what the validators and the other specifications hold
SvcRest == <<CoreRest, preVars, oLast, created, oLeft, prodVars, mwVars>>

\* NewOrderService(productService, orderRepo, validator) over a seeded product
\* repository and an empty order repository
InitService ==
  /\ CoreOff
  /\ PreOff
  /\ orders = <<>>
  /\ oLast = [op |-> "none", order |-> NilOrder, id |-> "", ret |-> NilOrder,
              err |-> NilError]
  /\ oBefore = <<>>
  /\ created = <<>>
  /\ oLeft = 0
  /\ products = Seeded(<<>>, <<ProductOf("1", "n"), ProductOf("2", "n")>>)
  /\ prLast = [op |-> "none", p |-> ProductOf("", ""), err |-> "nil", ret |-> NilProduct]
  /\ prBefore = <<>>
  /\ prLeft = 0
  /\ svcPc = "idle"
  /\ req = [Items |-> <<>>, CouponCode |-> ""]
  /\ asked = <<>>
  /\ svcRet = [order |-> NilOrder, err |-> NoError]
  /\ accepted \in AcceptedSets
  /\ svcLeft = MaxPlaceCalls
  /\ MwOff

\* a caller enters PlaceOrder(r)
PlaceCall(r) ==
  /\ svcPc = "idle"
  /\ svcLeft > 0
  /\ svcLeft' = svcLeft - 1
  /\ svcPc' = "items"
  /\ req' = r
  /\ asked' = <<>>
  /\ svcRet' = [order |-> NilOrder, err |-> NoError]
  /\ oBefore' = orders
  /\ UNCHANGED <<orders, accepted, SvcRest>>

\* variant of ItemChecks: the validator is asked about a non-empty coupon code
\* before the items are looked at
ItemChecksAfterPromo ==
  /\ svcPc = "items"
  /\ asked' = IF req.CouponCode # "" THEN Append(asked, req.CouponCode) ELSE asked
  /\ IF req.CouponCode # "" /\ ~StubValidatePromoCode(req.CouponCode)
     THEN /\ svcRet' = [order |-> NilOrder, err |-> NewValidationError("invalid promo code", 0)]
          /\ svcPc' = "done"
     ELSE IF BasicCheck(req) # NoError
     THEN /\ svcRet' = [order |-> NilOrder, err |-> BasicCheck(req)]
          /\ svcPc' = "done"
     ELSE /\ svcPc' = "products"
          /\ UNCHANGED svcRet
  /\ UNCHANGED <<orders, oBefore, req, accepted, svcLeft, SvcRest>>

\* the basic request validation: no items, an item without a product ID or
\* with a quantity below 1 ends the call
ItemChecks ==
  /\ svcPc = "items"
  /\ IF BasicCheck(req) # NoError
     THEN /\ svcRet' = [order |-> NilOrder, err |-> BasicCheck(req)]
          /\ svcPc' = "done"
     ELSE /\ svcPc' = "promo"
          /\ UNCHANGED svcRet
  /\ UNCHANGED <<orders, oBefore, req, asked, accepted, svcLeft, SvcRest>>

\* if req.CouponCode != "" { if !s.validator.ValidatePromoCode(...) {...} }
PromoCheck ==
  /\ svcPc = "promo"
  /\ IF req.CouponCode # ""
     THEN /\ asked' = Append(asked, req.CouponCode)
          /\ IF ~StubValidatePromoCode(req.CouponCode)
             THEN /\ svcRet' = [order |-> NilOrder,
                                err |-> NewValidationError("invalid promo code", 0)]
                  /\ svcPc' = "done"
             ELSE /\ svcPc' = "products"
                  /\ UNCHANGED svcRet
     ELSE /\ svcPc' = "products"
          /\ UNCHANGED <<asked, svcRet>>
  /\ UNCHANGED <<orders, oBefore, req, accepted, svcLeft, SvcRest>>

\* the IDs of the request's items, in order
IdsOf(items) == [i \in 1..Len(items) |-> items[i].ProductID]

\* prodMap, err := s.productService.ValidateProductsExist(ids)
ProductsCheck ==
  /\ svcPc = "products"
  /\ IF ValidateProductsExist(products, IdsOf(req.Items)) # NoError
     THEN /\ svcRet' = [order |-> NilOrder,
                        err |-> ValidateProductsExist(products, IdsOf(req.Items))]
          /\ svcPc' = "done"
     ELSE /\ svcPc' = "save"
          /\ UNCHANGED svcRet
  /\ UNCHANGED <<orders, oBefore, req, asked, accepted, svcLeft, SvcRest>>

\* the order is built with an ID drawn by uuid.New() (any UUID, one already
\* stored included) and handed to s.orderRepo.CreateOrder
SaveOrder ==
  /\ svcPc = "save"
  /\ \E id \in UUIDs :
       LET r == CreateOrderRet(orders, OrderOf(id, req.Items))
       IN /\ orders' = r.orders
          /\ svcRet' = IF r.err # NilError THEN [order |-> NilOrder, err |-> SaveError]
                       ELSE [order |-> r.ret, err |-> NoError]
  /\ svcPc' = "done"
  /\ UNCHANGED <<oBefore, req, asked, accepted, svcLeft, SvcRest>>

\* PlaceOrder returns
PlaceReturn ==
  /\ svcPc = "done"
  /\ svcPc' = "idle"
  /\ UNCHANGED <<orders, oBefore, req, asked, svcRet, accepted, svcLeft, SvcRest>>

NextService ==
  \/ \E r \in OrderRequests : PlaceCall(r)
  \/ ItemChecks
  \/ PromoCheck
  \/ ProductsCheck
  \/ SaveOrder
  \/ PlaceReturn

SpecService == InitService /\ [][NextService]_vars

\* C35: PlaceOrder consults the promo validator only when the request carries
\* a non-empty coupon code and only after the item checks have passed; when
\* the validator rejects the code the call returns a ValidationError
\* 'invalid promo code' with a nil order; and whenever the call returns an
\* error no order has been added to the order repository.
C35_PromoAfterItems ==
  /\ asked # <<>> =>
        /\ req.CouponCode # ""
        /\ BasicCheck(req) = NoError
        /\ asked = <<req.CouponCode>>
  /\ (svcPc \in {"done", "idle"} /\ asked # <<>> /\ ~StubValidatePromoCode(asked[1])) =>
        /\ svcRet.err = NewValidationError("invalid promo code", 0)
        /\ svcRet.order.nil
  /\ (svcPc \in {"done", "idle"} /\ svcRet.err # NoError) =>
        /\ svcRet.order.nil
        /\ orders = oBefore

\* C35 witness: with one order already stored, a request with sound items and
\* a coupon code the validator rejects has returned the promo error.
C35_Witness ==
  /\ svcPc = "done"
  /\ req.CouponCode = "BAD" /\ asked = <<"BAD">>
  /\ svcRet.err = NewValidationError("invalid promo code", 0)
  /\ orders # <<>> /\ orders = oBefore


(***************************************************************************)
(* The API-key middleware in front of the order routes.                    *)
(***************************************************************************)
\* values of the environment variable API_KEY ("" when it is not set)
EnvKeys == {"", "apitest", "k2"}
\* getEnv(key, fallback): the value if set and not empty, otherwise the fallback
getEnv(val, fallback) == IF val # "" THEN val ELSE fallback

Methods == {"GET", "POST", "OPTIONS"}
\* the api_key header of a request: not set, or set to a value
NoHeader == [set |-> FALSE, value |-> ""]
HeaderOf(v) == [set |-> TRUE, value |-> v]
Headers == {NoHeader} \cup { HeaderOf(v) : v \in {"", "apitest", "k2", "wrong"} }
\* r.Header.Get("api_key")
HeaderGet(h) == IF h.set THEN h.value ELSE ""

\* a response nothing has been written to
NoResponse ==
  [status |-> 0, contentType |-> "", body |-> [Code |-> 0, Type |-> "", Message |-> ""]]
\* w.WriteHeader(status) with no body
StatusOnly(status) ==
  [status |-> status, contentType |-> "", body |-> [Code |-> 0, Type |-> "", Message |-> ""]]
\* sendUnauthorized(w, message)
sendUnauthorized(message) ==
  [status |-> 401, contentType |-> "application/json",
   body |-> [Code |-> 401, Type |-> "error", Message |-> message]]

\* what the validators and the other specifications hold
MwRest == <<CoreRest, preVars, ordVars, prodVars, svcVars>>

\* config.Load() and NewRouter: the middleware is built with cfg.APIKey
InitAuth ==
  /\ CoreOff
  /\ PreOff
  /\ OrdOff
  /\ ProdOff
  /\ SvcOff
  /\ \E val \in EnvKeys : requiredAPIKey = getEnv(val, "apitest")
  /\ httpReq = [Method |-> "GET", Header |-> NoHeader]
  /\ mwPc = "idle"
  /\ resp = NoResponse
  /\ reached = FALSE
  /\ mwLeft = MaxRequests

\* a request for a protected route arrives
Serve(method, header) ==
  /\ mwPc = "idle"
  /\ mwLeft > 0
  /\ mwLeft' = mwLeft - 1
  /\ httpReq' = [Method |-> method, Header |-> header]
  /\ mwPc' = "auth"
  /\ resp' = NoResponse
  /\ reached' = FALSE
  /\ UNCHANGED <<requiredAPIKey, MwRest>>

\* variant of APIKeyMiddleware: any non-empty key is let through
APIKeyMiddlewareAnyKey ==
  /\ mwPc = "auth"
  /\ IF httpReq.Method = "OPTIONS"
     THEN resp' = StatusOnly(204) /\ mwPc' = "done"
     ELSE IF HeaderGet(httpReq.Header) = ""
     THEN resp' = sendUnauthorized("Missing API key") /\ mwPc' = "done"
     ELSE mwPc' = "next" /\ UNCHANGED resp
  /\ UNCHANGED <<requiredAPIKey, httpReq, reached, mwLeft, MwRest>>

\* the handler function APIKeyMiddleware wraps around next
APIKeyMiddleware ==
  /\ mwPc = "auth"
  /\ IF httpReq.Method = "OPTIONS"
     THEN resp' = StatusOnly(204) /\ mwPc' = "done"
     ELSE IF HeaderGet(httpReq.Header) = ""
     THEN resp' = sendUnauthorized("Missing API key") /\ mwPc' = "done"
     ELSE IF HeaderGet(httpReq.Header) # requiredAPIKey
     THEN resp' = sendUnauthorized("Invalid API key") /\ mwPc' = "done"
     ELSE mwPc' = "next" /\ UNCHANGED resp
  /\ UNCHANGED <<requiredAPIKey, httpReq, reached, mwLeft, MwRest>>

\* next.ServeHTTP(w, r): the protected handler runs and writes its response
NextServeHTTP ==
  /\ mwPc = "next"
  /\ reached' = TRUE
  /\ \E status \in {200, 400} : resp' = StatusOnly(status)
  /\ mwPc' = "done"
  /\ UNCHANGED <<requiredAPIKey, httpReq, mwLeft, MwRest>>

\* the response is sent
Respond ==
  /\ mwPc = "done"
  /\ mwPc' = "idle"
  /\ UNCHANGED <<requiredAPIKey, httpReq, resp, reached, mwLeft, MwRest>>

NextAuth ==
  \/ \E method \in Methods, header \in Headers : Serve(method, header)
  \/ APIKeyMiddleware
  \/ NextServeHTTP
  \/ Respond

SpecAuth == InitAuth /\ [][NextAuth]_vars

\* the api_key header of the request is set to the required key
KeyMatches == httpReq.Header.set /\ httpReq.Header.value = requiredAPIKey

====
